---- MODULE Spec2Model ----
(***************************************************************************)
(* CougarWise frontend: the financial analytics computed by the Analysis,  *)
(* Dashboard, Budget, Goals and AIAssistant pages.                          *)
(*                                                                         *)
(* Representation.                                                         *)
(*  - A JavaScript string is a sequence of one-character strings, so that  *)
(*    trim() and toLowerCase() are computed, not assumed.                  *)
(*  - A JavaScript object used as a map is a sequence of [key, val]        *)
(*    records in insertion order (Object.keys / Object.entries order).     *)
(*  - Amounts are integers.                                                *)
(*  - A Date is <<year, month0, day, tod>>: month0 is 0-based as in        *)
(*    Date.getMonth(), tod is the time of day (0 = 00:00 local time).      *)
(***************************************************************************)
EXTENDS Integers, Sequences, FiniteSets, TLC

VARIABLES route, now, analysis, dashboard, assistant, budgetPage, goalsPage,
          filterCall, fetchOutcome, auth, profilePage, chat, txTable

\* the clock and the pages that compute the financial analytics
pageVars == <<route, now, analysis, dashboard, assistant, budgetPage, goalsPage>>

\* what the specifications of the single components add to them: a call of
\* filterTransactionsByTimeframe, the answers given to Analysis.fetchData, the
\* AuthProvider, the Profile page, the chat of the AIAssistant page and the table of
\* the Transactions page
otherVars == <<filterCall, fetchOutcome, auth, profilePage, chat, txTable>>

vars == <<pageVars, otherVars>>

(***************************************************************************)
(* Bounds of the model.                                                    *)
(***************************************************************************)
MaxTx == 2

(***************************************************************************)
(* JavaScript values.                                                      *)
(***************************************************************************)
\* null / undefined in a place where a string is expected
NullValue == <<"(null)">>

\* an absent charts state (useState(null))
NoChart == [labels |-> <<"(null)">>, datasets |-> <<>>]

Str_income == <<"i", "n", "c", "o", "m", "e">>
Str_uncategorized == <<"u", "n", "c", "a", "t", "e", "g", "o", "r", "i", "z", "e", "d">>
Str_Uncategorized == <<"U", "n", "c", "a", "t", "e", "g", "o", "r", "i", "z", "e", "d">>
Str_Income == <<"I", "n", "c", "o", "m", "e">>
Str_Salary == <<"S", "a", "l", "a", "r", "y">>
Str_Food == <<"F", "o", "o", "d">>
Str_food == <<"f", "o", "o", "d">>
Str_foodPadded == <<" ", "f", "o", "o", "d", " ">>
Str_incomePadded == <<" ", "i", "n", "c", "o", "m", "e">>
Str_blank == <<" ", " ">>
Str_empty == <<>>
Str_NoData == <<"N", "o", " ", "D", "a", "t", "a">>
Str_NoExpenseData == <<"N", "o", " ", "E", "x", "p", "e", "n", "s", "e", " ", "D", "a", "t", "a">>
Str_NoCategories == <<"N", "o", " ", "C", "a", "t", "e", "g", "o", "r", "i", "e", "s">>

UpperLetters == <<"A", "B", "C", "D", "E", "F", "G", "H", "I", "J", "K", "L", "M",
                  "N", "O", "P", "Q", "R", "S", "T", "U", "V", "W", "X", "Y", "Z">>
LowerLetters == <<"a", "b", "c", "d", "e", "f", "g", "h", "i", "j", "k", "l", "m",
                  "n", "o", "p", "q", "r", "s", "t", "u", "v", "w", "x", "y", "z">>

\* String.prototype.toLowerCase on one character
LowerChar(c) ==
  IF \E i \in DOMAIN UpperLetters : UpperLetters[i] = c
    THEN LowerLetters[CHOOSE i \in DOMAIN UpperLetters : UpperLetters[i] = c]
    ELSE c

\* toLowerCase on the characters the model uses, tabulated once
LowerTable ==
  [c \in {UpperLetters[i] : i \in DOMAIN UpperLetters}
          \cup {LowerLetters[i] : i \in DOMAIN LowerLetters} \cup {" "} |-> LowerChar(c)]

\* String.prototype.toLowerCase
toLowerCase(s) == [i \in DOMAIN s |-> LowerTable[s[i]]]

IsSpace(c) == c \in {" ", "\t", "\n"}

RECURSIVE TrimStart(_)
TrimStart(s) ==
  IF s # <<>> /\ IsSpace(Head(s)) THEN TrimStart(Tail(s)) ELSE s

RECURSIVE TrimEnd(_)
TrimEnd(s) ==
  IF s # <<>> /\ IsSpace(s[Len(s)]) THEN TrimEnd(SubSeq(s, 1, Len(s) - 1)) ELSE s

\* String.prototype.trim
trim(s) == TrimEnd(TrimStart(s))

\* typeof v === 'string'
IsString(v) == v # NullValue

\* truthiness of a string-or-null value: null, undefined and '' are falsy
Truthy(v) == v # NullValue /\ v # <<>>

\* Math.abs
Abs(x) == IF x < 0 THEN -x ELSE x

Min(a, b) == IF a < b THEN a ELSE b

Digits == <<"0", "1", "2", "3", "4", "5", "6", "7", "8", "9">>

IsDigit(c) == \E i \in DOMAIN Digits : Digits[i] = c

DigitValue(c) == (CHOOSE i \in DOMAIN Digits : Digits[i] = c) - 1

\* the longest prefix of s made of digits
RECURSIVE DigitPrefix(_)
DigitPrefix(s) ==
  IF s # <<>> /\ IsDigit(Head(s)) THEN <<Head(s)>> \o DigitPrefix(Tail(s)) ELSE <<>>

\* the value of a sequence of digits (0 for the empty one)
RECURSIVE DigitsValue(_)
DigitsValue(s) ==
  IF s = <<>> THEN 0 ELSE 10 * DigitsValue(SubSeq(s, 1, Len(s) - 1)) + DigitValue(s[Len(s)])

RECURSIVE Pow10(_)
Pow10(k) == IF k = 0 THEN 1 ELSE 10 * Pow10(k - 1)

\* a number: NaN, or num / den with den a power of ten
NaN == [nan |-> TRUE, num |-> 0, den |-> 1]
Num(n, d) == [nan |-> FALSE, num |-> n, den |-> d]

\* parseFloat on a string of sign, digits and dots: the longest prefix that reads
\* as [-]digits[.digits], NaN when that prefix holds no digit
parseFloat(s) ==
  LET t == TrimStart(s)
      negative == t # <<>> /\ Head(t) = "-"
      body == IF negative THEN Tail(t) ELSE t
      intPart == DigitPrefix(body)
      rest == SubSeq(body, Len(intPart) + 1, Len(body))
      fracPart == IF rest # <<>> /\ Head(rest) = "." THEN DigitPrefix(Tail(rest)) ELSE <<>>
      magnitude == DigitsValue(intPart \o fracPart)
  IN IF intPart = <<>> /\ fracPart = <<>> THEN NaN
     ELSE Num(IF negative THEN -magnitude ELSE magnitude, Pow10(Len(fracPart)))

\* Number.prototype.toString for an integer
RECURSIVE NaturalToString(_)
NaturalToString(n) ==
  IF n < 10 THEN <<Digits[n + 1]>> ELSE NaturalToString(n \div 10) \o <<Digits[(n % 10) + 1]>>

NumberToString(n) == IF n < 0 THEN <<"-">> \o NaturalToString(-n) ELSE NaturalToString(n)

\* value.replace(/[^0-9.]/g, '')
StripNonNumeric(value) == SelectSeq(value, LAMBDA c : IsDigit(c) \/ c = ".")

\* a form field that holds a string, or a number copied from a stored record
StringField(s) == [isNumber |-> FALSE, text |-> s, number |-> 0]
NumberField(n) == [isNumber |-> TRUE, text |-> <<>>, number |-> n]

\* truthiness of a form field: '' and 0 are falsy
FieldTruthy(f) == IF f.isNumber THEN f.number # 0 ELSE f.text # <<>>

\* what the user can put into an amount text field: empty, zero, a negative
\* number and a zero with a fraction
TypedAmounts == {<<>>, <<"0">>, <<"-", "5">>, <<"0", ".", "0">>}

(***************************************************************************)
(* Object-as-map, in insertion order.                                      *)
(***************************************************************************)
ObjHas(o, k) == \E i \in DOMAIN o : o[i].key = k

\* o[k], with undefined read as 0 (every use is `o[k] || 0` or a truthiness test)
ObjGet(o, k) ==
  IF ObjHas(o, k) THEN o[CHOOSE i \in DOMAIN o : o[i].key = k].val ELSE 0

\* if (!o[k]) o[k] = 0; o[k] += v
ObjAdd(o, k, v) ==
  IF ObjHas(o, k)
    THEN [i \in DOMAIN o |-> IF o[i].key = k THEN [key |-> k, val |-> o[i].val + v] ELSE o[i]]
    ELSE Append(o, [key |-> k, val |-> v])

\* delete o[k]
ObjDelete(o, k) == SelectSeq(o, LAMBDA e : e.key # k)

ObjKeys(o) == [i \in DOMAIN o |-> o[i].key]
ObjValues(o) == [i \in DOMAIN o |-> o[i].val]

RECURSIVE SumSeq(_)
SumSeq(s) == IF s = <<>> THEN 0 ELSE Head(s) + SumSeq(Tail(s))

KeySet(o) == {o[i].key : i \in DOMAIN o}

(***************************************************************************)
(* Dates.                                                                  *)
(***************************************************************************)
InvalidDate == <<0, 0, 0, -1>>

\* a transaction without a date field (undefined)
NoDate == <<0, 0, 0, -2>>

\* a date field holding a string Date cannot parse
BadDateString == <<0, 0, 0, -3>>

IsLeap(y) == (y % 4 = 0 /\ y % 100 # 0) \/ y % 400 = 0

DaysInMonth(y, m0) ==
  IF m0 = 1 THEN (IF IsLeap(y) THEN 29 ELSE 28)
  ELSE IF m0 \in {3, 5, 8, 10} THEN 30 ELSE 31

RECURSIVE RollDays(_, _, _)
RollDays(y, m0, d) ==
  IF d > DaysInMonth(y, m0)
    THEN RollDays(IF m0 = 11 THEN y + 1 ELSE y, (m0 + 1) % 12, d - DaysInMonth(y, m0))
    ELSE <<y, m0, d, 0>>

\* new Date(year, monthIndex, day): local midnight, with month and day overflow
NewDateYMD(y, m0, d) ==
  LET months == y * 12 + m0
  IN RollDays(months \div 12, months % 12, d)

\* new Date(value) for the date field of a transaction
NewDate(v) == IF v \in {NoDate, BadDateString} THEN InvalidDate ELSE v

\* a > b on Dates; every comparison with an Invalid Date (NaN) is false
DateGT(a, b) ==
  /\ a # InvalidDate
  /\ b # InvalidDate
  /\ \/ a[1] > b[1]
     \/ a[1] = b[1] /\ a[2] > b[2]
     \/ a[1] = b[1] /\ a[2] = b[2] /\ a[3] > b[3]
     \/ a[1] = b[1] /\ a[2] = b[2] /\ a[3] = b[3] /\ a[4] > b[4]

(***************************************************************************)
(* Data returned by the API.                                               *)
(***************************************************************************)
\* a transaction without a type field
NoType == "(none)"

Tx(a, c, d, ty) == [amount |-> a, category |-> c, date |-> d, type |-> ty]

\* the clock values new Date() returns: 31 Mar 2025 and 15 Mar 2025, midday
Nows == {<<2025, 2, 31, 1>>, <<2025, 2, 15, 1>>}

\* 10 Mar 2025, midday: inside the month window of both clock values
Recent == <<2025, 2, 10, 1>>

RawCategories ==
  {NullValue, Str_empty, Str_blank, Str_Food, Str_foodPadded, Str_Income,
   Str_incomePadded, Str_Salary}

\* category.trim().toLowerCase() of the category strings above, tabulated once
TrimLowerTable == [c \in RawCategories \ {NullValue} |-> toLowerCase(trim(c))]

\* s.trim().toLowerCase()
TrimLower(s) == IF s \in DOMAIN TrimLowerTable THEN TrimLowerTable[s] ELSE toLowerCase(trim(s))

\* 2 Apr 2025 (after both clock values); 3 Mar 2025 00:00 (the start of the month
\* window of 31 Mar 2025); 1 Jun 2024; a missing and an unparseable date
TxDates == {<<2025, 3, 2, 0>>, <<2025, 2, 3, 0>>, <<2024, 5, 1, 1>>, NoDate, BadDateString}

\* the transactions the Analysis page is given: it reads amount, category, date, type
AnalysisTxUniverse ==
  {Tx(-50, c, Recent, NoType) : c \in RawCategories \ {Str_Income, Str_Salary}}
    \cup {Tx(-20, Str_Food, d, NoType) : d \in TxDates}
    \cup {Tx(30, Str_Food, Recent, NoType), Tx(300, Str_Income, Recent, "income"),
          Tx(0, Str_Salary, Recent, "expense")}

SeqsUpTo(S, n) == UNION {[1..k -> S] : k \in 0..n}

AnalysisTxLists == SeqsUpTo(AnalysisTxUniverse, MaxTx)

Budget(c, a, sp) == [category |-> c, amount |-> a, spent |-> sp]

Goal(n, t, c) == [name |-> n, targetAmount |-> t, currentAmount |-> c, category |-> Str_Food]

BudgetLists ==
  {<<>>, <<Budget(Str_Food, 100, 80)>>,
   <<Budget(Str_foodPadded, 200, 0), Budget(Str_Salary, 0, 10)>>}

\* a non-empty answer of the budgets and of the goals request
BudgetLists_one == <<Budget(Str_Food, 100, 80)>>
GoalLists_one == <<Goal("Laptop", 1000, 200)>>

GoalLists ==
  {<<>>, <<Goal("Laptop", 1000, 200)>>,
   <<Goal("Trip", 1000, 1500), Goal("Car", 400, -100)>>}

(***************************************************************************)
(* Analysis page (src/frontend/src/pages/Analysis.js).                     *)
(***************************************************************************)
Timeframes == {"month", "quarter", "year"}

\* filterTransactionsByTimeframe whose default branch takes the window of a year
filterTransactionsByTimeframe_DefaultYear(transactions, timeframe, clock) ==
  LET startDate ==
        CASE timeframe = "month" -> NewDateYMD(clock[1], clock[2] - 1, clock[3])
          [] timeframe = "quarter" -> NewDateYMD(clock[1], clock[2] - 3, clock[3])
          [] OTHER -> NewDateYMD(clock[1] - 1, clock[2], clock[3])
  IN SelectSeq(transactions, LAMBDA t : DateGT(NewDate(t.date), startDate))

\* filterTransactionsByTimeframe, with the timeframe state and the clock as parameters
filterTransactionsByTimeframe(transactions, timeframe, clock) ==
  LET startDate ==
        CASE timeframe = "month" -> NewDateYMD(clock[1], clock[2] - 1, clock[3])
          [] timeframe = "quarter" -> NewDateYMD(clock[1], clock[2] - 3, clock[3])
          [] timeframe = "year" -> NewDateYMD(clock[1] - 1, clock[2], clock[3])
          [] OTHER -> NewDateYMD(clock[1], clock[2] - 1, clock[3])
  IN SelectSeq(transactions, LAMBDA t : DateGT(NewDate(t.date), startDate))

\* the filter callback of expensesByCategory
IsBreakdownExpense(t) ==
  /\ IsString(t.category)
  /\ TrimLower(t.category) # Str_income
  /\ (t.amount > 0 \/ t.amount < 0 \/ t.type = "expense")

\* transaction.category?.trim().toLowerCase() || 'uncategorized'
CategoryKey(category) ==
  IF IsString(category) /\ TrimLower(category) # <<>>
    THEN TrimLower(category)
    ELSE Str_uncategorized

RECURSIVE ReduceByCategory(_, _)
ReduceByCategory(acc, ts) ==
  IF ts = <<>> THEN acc
  ELSE ReduceByCategory(ObjAdd(acc, CategoryKey(Head(ts).category), Abs(Head(ts).amount)),
                        Tail(ts))

\* expensesByCategory of prepareChartData, from the filtered transactions
ExpensesByCategory(filtered) ==
  ReduceByCategory(<<>>, SelectSeq(filtered, IsBreakdownExpense))

\* Array.prototype.sort((a, b) => b[1] - a[1]): stable, by descending amount
RECURSIVE InsertByAmount(_, _)
InsertByAmount(sorted, e) ==
  IF sorted = <<>> THEN <<e>>
  ELSE IF Head(sorted).val >= e.val
    THEN <<Head(sorted)>> \o InsertByAmount(Tail(sorted), e)
    ELSE <<e>> \o sorted

RECURSIVE SortByAmountDesc(_)
SortByAmountDesc(o) ==
  IF o = <<>> THEN <<>>
  ELSE InsertByAmount(SortByAmountDesc(SubSeq(o, 1, Len(o) - 1)), o[Len(o)])

\* CategoryExpenseChart without the 'No Expense Data' branch
CategoryExpenseChart_NoPlaceholder(expensesByCategory) ==
  LET sortedCategories == SortByAmountDesc(expensesByCategory)
  IN [labels |-> ObjKeys(sortedCategories), datasets |-> <<ObjValues(sortedCategories)>>]

\* the value given to setCategoryExpenseData after the early return
CategoryExpenseChart(expensesByCategory) ==
  IF Len(ObjKeys(expensesByCategory)) = 0
    THEN [labels |-> <<Str_NoExpenseData>>, datasets |-> <<<<1>>>>]
    ELSE LET sortedCategories == SortByAmountDesc(expensesByCategory)
         IN [labels |-> ObjKeys(sortedCategories),
             datasets |-> <<ObjValues(sortedCategories)>>]

\* d.toLocaleString('default', {month: 'short', year: '2-digit'}) in an English
\* locale ('Mar 25'): the short month name (one per month index, the names that
\* Date.parse reads back) and the last two digits of the year
MonthLabel(d) == <<d[2], d[1] % 100>>

\* the months array with the loop running from 12 down to 1: the 12 months that
\* end with the month before the current one
Months_EndingLastMonth(clock) ==
  [k \in 1..12 |-> MonthLabel(NewDateYMD(clock[1], clock[2] - (13 - k), 1))]

\* the months array: the first of each of the 12 months ending with the current one
Months(clock) ==
  [k \in 1..12 |-> MonthLabel(NewDateYMD(clock[1], clock[2] - (12 - k), 1))]

\* months.findIndex(...) for one transaction date; 0 stands for -1 (not found)
MonthIndex(months, transactionDate) ==
  LET hit == {k \in DOMAIN months :
                /\ transactionDate # InvalidDate
                /\ transactionDate[2] = months[k][1]
                /\ transactionDate[1] = 2000 + months[k][2]}
  IN IF hit = {} THEN 0 ELSE CHOOSE k \in hit : \A j \in hit : k <= j

\* transaction.date ? new Date(transaction.date) : new Date()
TransactionDate(t, clock) == IF t.date = NoDate THEN clock ELSE NewDate(t.date)

\* the months array at each value of the clock, and monthIndex for each date a
\* transaction carries, tabulated once
MonthsTable == [clock \in Nows |-> Months(clock)]

MonthIndexTable ==
  [clock \in Nows |->
     [d \in TxDates \cup {Recent} |->
        MonthIndex(MonthsTable[clock], TransactionDate([date |-> d], clock))]]

\* monthIndex of one transaction: read from the table when the table covers it
TransactionMonthIndex(months, t, clock) ==
  IF clock \in Nows /\ t.date \in TxDates \cup {Recent} /\ months = MonthsTable[clock]
    THEN MonthIndexTable[clock][t.date]
    ELSE MonthIndex(months, TransactionDate(t, clock))

\* const isIncome = transaction.category?.trim().toLowerCase() === 'income'
IsIncome(t) == IsString(t.category) /\ TrimLower(t.category) = Str_income

RECURSIVE MonthlyData(_, _, _, _)
MonthlyData(acc, ts, months, clock) ==
  IF ts = <<>> THEN acc
  ELSE LET t == Head(ts)
           monthIndex == TransactionMonthIndex(months, t, clock)
           next ==
             IF monthIndex = 0 THEN acc
             ELSE IF IsIncome(t)
               THEN [acc EXCEPT !.savings[monthIndex] = @ + Abs(t.amount)]
               ELSE [acc EXCEPT !.expenses[monthIndex] = @ + Abs(t.amount)]
       IN MonthlyData(next, Tail(ts), months, clock)

\* the value given to setMonthlyTotalsData after the early return
MonthlyTotalsChart(transactions, clock) ==
  LET months == IF clock \in Nows THEN MonthsTable[clock] ELSE Months(clock)
      zero == [k \in 1..12 |-> 0]
      monthlyData == MonthlyData([income |-> zero, expenses |-> zero, savings |-> zero],
                                 transactions, months, clock)
  IN [labels |-> months, datasets |-> <<monthlyData.expenses, monthlyData.savings>>]

\* the filter callback of categorySpendings
IsSpending(t) ==
  /\ IsString(t.category)
  /\ TrimLower(t.category) # Str_income
  /\ t.amount # 0

RECURSIVE ReduceSpendings(_, _)
ReduceSpendings(acc, ts) ==
  IF ts = <<>> THEN acc
  ELSE ReduceSpendings(ObjAdd(acc, TrimLower(Head(ts).category), Abs(Head(ts).amount)),
                       Tail(ts))

\* categorySpendings of prepareChartData
CategorySpendings(filtered) == ReduceSpendings(<<>>, SelectSeq(filtered, IsSpending))

\* the value given to setBudgetComparisonData
BudgetComparisonChart(budgets, categorySpendings) ==
  [labels |-> [i \in DOMAIN budgets |-> toLowerCase(budgets[i].category)],
   datasets |-> <<[i \in DOMAIN budgets |-> budgets[i].amount],
                  [i \in DOMAIN budgets |->
                     ObjGet(categorySpendings, toLowerCase(budgets[i].category))]>>]

\* the value given to setGoalProgressData when there are goals
GoalProgressChart(goals) ==
  [labels |-> [i \in DOMAIN goals |-> goals[i].name],
   datasets |-> <<[i \in DOMAIN goals |-> goals[i].currentAmount],
                  [i \in DOMAIN goals |-> goals[i].targetAmount]>>]

\* prepareChartData that leaves a category chart it has already drawn alone when
\* no transaction falls inside the window
prepareChartData_KeepCategoryChart(a, clock) ==
  IF Len(a.transactions) = 0
    THEN [a EXCEPT !.categoryExpenseData = [labels |-> <<Str_NoData>>, datasets |-> <<<<1>>>>],
                   !.monthlyTotalsData = [labels |-> <<Str_NoData>>, datasets |-> <<<<0>>>>]]
    ELSE LET filtered == filterTransactionsByTimeframe(a.transactions, a.timeframe, clock)
         IN [a EXCEPT
               !.categoryExpenseData =
                  IF filtered = <<>> /\ Len(a.categoryExpenseData.datasets) > 0 THEN @
                  ELSE CategoryExpenseChart(ExpensesByCategory(filtered)),
               !.monthlyTotalsData = MonthlyTotalsChart(a.transactions, clock),
               !.budgetComparisonData =
                  BudgetComparisonChart(a.budgets, CategorySpendings(filtered)),
               !.goalProgressData =
                  IF Len(a.goals) > 0 THEN GoalProgressChart(a.goals) ELSE @]

\* prepareChartData whose monthly expense totals are not reset between calls: each
\* call adds to the totals the previous call left
prepareChartData_KeepMonthlyTotals(a, clock) ==
  IF Len(a.transactions) = 0
    THEN [a EXCEPT !.categoryExpenseData = [labels |-> <<Str_NoData>>, datasets |-> <<<<1>>>>],
                   !.monthlyTotalsData = [labels |-> <<Str_NoData>>, datasets |-> <<<<0>>>>]]
    ELSE LET filtered == filterTransactionsByTimeframe(a.transactions, a.timeframe, clock)
             monthly == MonthlyTotalsChart(a.transactions, clock)
         IN [a EXCEPT
               !.categoryExpenseData = CategoryExpenseChart(ExpensesByCategory(filtered)),
               !.monthlyTotalsData =
                  IF Len(a.monthlyTotalsData.datasets) = 2
                    THEN [monthly EXCEPT
                            !.datasets[1] =
                               [k \in 1..12 |->
                                  monthly.datasets[1][k] + a.monthlyTotalsData.datasets[1][k]]]
                    ELSE monthly,
               !.budgetComparisonData =
                  BudgetComparisonChart(a.budgets, CategorySpendings(filtered)),
               !.goalProgressData =
                  IF Len(a.goals) > 0 THEN GoalProgressChart(a.goals) ELSE @]

\* prepareChartData on the page state a, at the given clock value
prepareChartData(a, clock) ==
  IF Len(a.transactions) = 0
    THEN [a EXCEPT !.categoryExpenseData = [labels |-> <<Str_NoData>>, datasets |-> <<<<1>>>>],
                   !.monthlyTotalsData = [labels |-> <<Str_NoData>>, datasets |-> <<<<0>>>>]]
    ELSE LET filtered == filterTransactionsByTimeframe(a.transactions, a.timeframe, clock)
         IN [a EXCEPT
               !.categoryExpenseData = CategoryExpenseChart(ExpensesByCategory(filtered)),
               !.monthlyTotalsData = MonthlyTotalsChart(a.transactions, clock),
               !.budgetComparisonData =
                  BudgetComparisonChart(a.budgets, CategorySpendings(filtered)),
               !.goalProgressData =
                  IF Len(a.goals) > 0 THEN GoalProgressChart(a.goals) ELSE @]

\* the state of a freshly mounted Analysis page
AnalysisInit ==
  [loading |-> TRUE, transactions |-> <<>>, budgets |-> <<>>, goals |-> <<>>,
   timeframe |-> "month", categoryExpenseData |-> NoChart, monthlyTotalsData |-> NoChart,
   budgetComparisonData |-> NoChart, goalProgressData |-> NoChart]

\* the result of one of the three parallel requests: the data, or a rejection
FetchResults(lists) == {[ok |-> TRUE, data |-> l] : l \in lists} \cup {[ok |-> FALSE, data |-> <<>>]}

\* promise.catch(err => []) followed by `data || []`
OrEmpty(r) == IF r.ok THEN r.data ELSE <<>>

\* what localStorage 'user' holds when fetchData reads it: nothing, a string that
\* is not JSON, a user without id, or a user
StoredUserKinds == {"none", "malformed", "noId", "user"}

\* fetchData that gives up every collection when one request fails
fetchData_AllOrNothing(a, stored, tr, bu, go) ==
  IF stored \in {"none", "noId"}
    THEN [a EXCEPT !.loading = FALSE]
    ELSE IF stored = "malformed" \/ ~tr.ok \/ ~bu.ok \/ ~go.ok
      THEN [a EXCEPT !.transactions = <<>>, !.budgets = <<>>, !.goals = <<>>,
                     !.loading = FALSE]
      ELSE [a EXCEPT !.transactions = tr.data, !.budgets = bu.data, !.goals = go.data,
                     !.loading = FALSE]

\* fetchData from its start to its finally block, given the stored user and the
\* results of the three requests
fetchData(a, stored, tr, bu, go) ==
  CASE stored \in {"none", "noId"} -> [a EXCEPT !.loading = FALSE]
    [] stored = "malformed" ->
         [a EXCEPT !.transactions = <<>>, !.budgets = <<>>, !.goals = <<>>,
                   !.loading = FALSE]
    [] OTHER ->
         [a EXCEPT !.transactions = OrEmpty(tr), !.budgets = OrEmpty(bu),
                   !.goals = OrEmpty(go), !.loading = FALSE]

\* the results of the budgets and of the goals request, as pairs: one of the two
\* fails or answers the empty list, or both answer the list of the same rank
BudgetAndGoalResults ==
  {bg \in FetchResults(BudgetLists) \X FetchResults(GoalLists) :
     \/ OrEmpty(bg[1]) = <<>>
     \/ OrEmpty(bg[2]) = <<>>
     \/ Len(bg[1].data) = Len(bg[2].data)}

\* fetchData completes (it runs once, on mount), then the chart effect runs: either
\* no user is stored and it returns before any request, or the three requests settle
AnalysisFetchData ==
  /\ route = "analysis"
  /\ analysis.loading
  /\ \/ analysis' = prepareChartData([analysis EXCEPT !.loading = FALSE], now)
     \/ \E tr \in FetchResults(AnalysisTxLists), bg \in BudgetAndGoalResults :
          analysis' = prepareChartData(fetchData(analysis, "user", tr, bg[1], bg[2]), now)
  /\ UNCHANGED otherVars
  /\ UNCHANGED <<route, now, dashboard, assistant, budgetPage, goalsPage>>

\* handleTimeframeChange, then the chart effect (which runs only when not loading)
HandleTimeframeChange ==
  /\ route = "analysis"
  /\ \E value \in Timeframes :
       /\ value # analysis.timeframe
       /\ analysis' =
            IF analysis.loading
              THEN [analysis EXCEPT !.timeframe = value]
              ELSE prepareChartData([analysis EXCEPT !.timeframe = value], now)
  /\ UNCHANGED otherVars
  /\ UNCHANGED <<route, now, dashboard, assistant, budgetPage, goalsPage>>

(***************************************************************************)
(* Dashboard page (src/frontend/src/pages/Dashboard.js, lines 61-214).     *)
(***************************************************************************)
\* the transactions the Dashboard is given: it reads amount and category
DashboardTxUniverse ==
  {Tx(-50, c, Recent, NoType) : c \in RawCategories}
    \cup {Tx(30, Str_Food, Recent, NoType), Tx(0, Str_Food, Recent, NoType),
          Tx(300, Str_Income, Recent, NoType)}

DashboardTxLists == SeqsUpTo(DashboardTxUniverse, MaxTx)

Entry(k, v) == [key |-> k, val |-> v]

\* what getSpendingAnalysis resolves to: its default on a failed request
\* (authService.js 199-208), or the body of the API's answer
AnalysisResponses ==
  {[total_spending |-> 0, category_breakdown |-> <<>>, period |-> "monthly"],
   [total_spending |-> 80, category_breakdown |-> <<Entry(Str_Food, 80)>>, period |-> "monthly"],
   [total_spending |-> 80,
    category_breakdown |-> <<Entry(Str_Income, 300), Entry(Str_Food, 80)>>, period |-> "monthly"],
   [total_spending |-> 50,
    category_breakdown |-> <<Entry(Str_Food, 50), Entry(Str_Salary, 0)>>, period |-> ""]}

\* analysis state before the first setAnalysis (useState(null))
NoAnalysis == [total_spending |-> 0, period |-> "(null)", category_breakdown |-> <<>>]

\* the forEach callback that builds the manual categoryBreakdown
RECURSIVE ManualBreakdown(_, _)
ManualBreakdown(acc, ts) ==
  IF ts = <<>> THEN acc
  ELSE LET t == Head(ts)
           category == IF Truthy(t.category) THEN t.category ELSE Str_Uncategorized
       IN IF t.amount >= 0 THEN ManualBreakdown(acc, Tail(ts))
          ELSE IF trim(category) # <<>>
            THEN ManualBreakdown(ObjAdd(acc, category, Abs(t.amount)), Tail(ts))
            ELSE ManualBreakdown(acc, Tail(ts))

\* expenseTransactions: transactionsData.filter(t => t.amount < 0)
ExpenseTransactions(ts) == SelectSeq(ts, LAMBDA t : t.amount < 0)

\* calculatedTotalSpending
CalculatedTotalSpending(ts) ==
  SumSeq([i \in DOMAIN ExpenseTransactions(ts) |-> Abs(ExpenseTransactions(ts)[i].amount)])

\* the object given to setAnalysis by fetchDashboardData
LoadedAnalysis(transactionsData, analysisData) ==
  LET hasTransactions == Len(transactionsData) > 0
      hasSpendingData == Len(ObjKeys(analysisData.category_breakdown)) > 0
      calculatedTotalSpending == CalculatedTotalSpending(transactionsData)
      categoryBreakdown ==
        IF hasTransactions /\ ~hasSpendingData
          THEN ManualBreakdown(<<>>, transactionsData) ELSE <<>>
  IN [total_spending |->
        IF calculatedTotalSpending # 0 THEN calculatedTotalSpending
        ELSE analysisData.total_spending,
      period |-> IF analysisData.period # "" THEN analysisData.period ELSE "Monthly",
      category_breakdown |->
        IF Len(ObjKeys(analysisData.category_breakdown)) > 0
          THEN analysisData.category_breakdown
        ELSE IF Len(ObjKeys(categoryBreakdown)) > 0 THEN categoryBreakdown
        ELSE IF Len(transactionsData) > 0 THEN <<Entry(Str_NoCategories, 0)>>
        ELSE <<>>]

\* the state of a freshly mounted Dashboard; effectPending: the income-filter effect
\* is scheduled because analysis?.category_breakdown changed since it last ran
DashboardInit ==
  [loading |-> TRUE, transactions |-> <<>>, budgets |-> <<>>, goals |-> <<>>,
   analysisData |-> NoAnalysis, analysis |-> NoAnalysis, error |-> FALSE,
   effectPending |-> FALSE]

\* fetchDashboardData completes (its effect is keyed on currentUser, fixed while
\* mounted). The budgets and the goals, which it only stores, are both answered or
\* both fail
FetchDashboardData ==
  /\ route = "dashboard"
  /\ dashboard.loading
  /\ \E tr \in FetchResults(DashboardTxLists), analysisData \in AnalysisResponses,
        br \in FetchResults({BudgetLists_one}) :
     \E gr \in {r \in FetchResults({GoalLists_one}) : r.ok = br.ok} :
       dashboard' = [dashboard EXCEPT
                       !.loading = FALSE,
                       !.error = FALSE,
                       !.transactions = OrEmpty(tr),
                       !.budgets = OrEmpty(br),
                       !.goals = OrEmpty(gr),
                       !.analysisData = analysisData,
                       !.analysis = LoadedAnalysis(OrEmpty(tr), analysisData),
                       !.effectPending = TRUE]
  /\ UNCHANGED otherVars
  /\ UNCHANGED <<route, now, analysis, assistant, budgetPage, goalsPage>>

Str_Wages == <<"W", "a", "g", "e", "s">>
Str_Dividend == <<"D", "i", "v", "i", "d", "e", "n", "d">>
Str_Interest == <<"I", "n", "t", "e", "r", "e", "s", "t">>
Str_Gift == <<"G", "i", "f", "t">>
Str_Refund == <<"R", "e", "f", "u", "n", "d">>

\* incomeCategories of the income-filter effect
incomeCategories ==
  <<Str_Income, Str_Salary, Str_Wages, Str_Dividend, Str_Interest, Str_Gift, Str_Refund>>

\* the keys the effect deletes: those of the list whose value is truthy
RemovedIncomeKeys(breakdown) ==
  {incomeCategories[i] : i \in {j \in DOMAIN incomeCategories :
                                   ObjGet(breakdown, incomeCategories[j]) # 0}}

\* a filter that deletes the key 'Income' only
FilteredBreakdown_OnlyIncome(breakdown) ==
  SelectSeq(breakdown, LAMBDA e : e.key # Str_Income)

\* filteredBreakdown of the income-filter effect
FilteredBreakdown(breakdown) ==
  SelectSeq(breakdown, LAMBDA e : e.key \notin RemovedIncomeKeys(breakdown))

\* the income-filter effect runs, after a render in which category_breakdown changed
DashboardIncomeFilterEffect ==
  /\ route = "dashboard"
  /\ dashboard.effectPending
  /\ LET hasChanges == RemovedIncomeKeys(dashboard.analysis.category_breakdown) # {}
     IN dashboard' =
          IF dashboard.analysis = NoAnalysis \/ ~hasChanges
            THEN [dashboard EXCEPT !.effectPending = FALSE]
            ELSE [dashboard EXCEPT
                    !.analysis.category_breakdown =
                       FilteredBreakdown(dashboard.analysis.category_breakdown),
                    !.effectPending = TRUE]
  /\ UNCHANGED otherVars
  /\ UNCHANGED <<route, now, analysis, assistant, budgetPage, goalsPage>>

(***************************************************************************)
(* AIAssistant page: fetchFinancialData                                    *)
(* (src/frontend/src/pages/AIAssistant.js, lines 189-326).                 *)
(***************************************************************************)
\* the transactions the assistant is given: it reads amount, category and type
AssistantTxUniverse ==
  {Tx(-50, Str_Food, Recent, NoType), Tx(300, Str_Income, Recent, "income"),
   Tx(100, Str_Food, Recent, "expense"), Tx(40, Str_foodPadded, Recent, "expense"),
   Tx(60, NullValue, Recent, "expense"), Tx(-50, Str_Income, Recent, "expense")}

AssistantTxLists == SeqsUpTo(AssistantTxUniverse, MaxTx)

\* Math.round(n / d * 100) for d > 0: the nearest integer, halves towards +Infinity
RoundPercent(n, d) == (200 * n + d) \div (2 * d)

\* Math.ceil(n / d) for d > 0
CeilDiv(n, d) == -((-n) \div d)

\* a non-integer number n / d (d > 0), kept exact
Ratio(n, d) == [num |-> n, den |-> d]

\* the value 'unknown' and a number of months, for timeRemaining
Unknown == [unknown |-> TRUE, months |-> 0]
Months_(m) == [unknown |-> FALSE, months |-> m]

\* sum of t.amount over the transactions of one type
SumOfType(ts, ty) ==
  LET sel == SelectSeq(ts, LAMBDA t : t.type = ty)
  IN SumSeq([i \in DOMAIN sel |-> sel[i].amount])

RECURSIVE ReduceAssistantSpendings(_, _)
ReduceAssistantSpendings(acc, ts) ==
  IF ts = <<>> THEN acc
  ELSE LET t == Head(ts)
           category == IF Truthy(t.category) THEN t.category ELSE Str_Uncategorized
       IN ReduceAssistantSpendings(ObjAdd(acc, category, t.amount), Tail(ts))

\* categorySpendings of fetchFinancialData
AssistantCategorySpendings(ts) ==
  ReduceAssistantSpendings(<<>>, SelectSeq(ts, LAMBDA t : t.type = "expense"))

\* one element of budgetUtilization
BudgetUtilizationOf(budget, categorySpendings) ==
  LET spent == ObjGet(categorySpendings, budget.category)
  IN [category |-> budget.category, budgeted |-> budget.amount, spent |-> spent,
      percentage |-> IF budget.amount > 0 THEN Ratio(spent * 100, budget.amount)
                     ELSE Ratio(0, 1),
      remaining |-> budget.amount - spent]

\* Math.round((goal.currentAmount / goal.targetAmount) * 100), for targetAmount > 0
GoalProgress(goal) == RoundPercent(goal.currentAmount, goal.targetAmount)

\* the timeRemaining expression, then `isFinite(x) ? x : 'unknown'`
GoalTimeRemaining(goal, monthlySavings) ==
  IF monthlySavings > 0
    THEN Months_(CeilDiv(goal.targetAmount - goal.currentAmount, monthlySavings))
    ELSE Unknown

\* one element of goalDetails
GoalDetailOf(goal, monthlySavings) ==
  [name |-> goal.name, targetAmount |-> goal.targetAmount,
   currentAmount |-> goal.currentAmount, progress |-> GoalProgress(goal),
   timeRemaining |-> GoalTimeRemaining(goal, monthlySavings)]

\* the object given to setFinancialData
ComputedFinancialData(transactions, budgets, goals) ==
  LET income == SumOfType(transactions, "income")
      expenses == SumOfType(transactions, "expense")
      monthlySavings == income - expenses
      categorySpendings == AssistantCategorySpendings(transactions)
      sortedCategories == SortByAmountDesc(categorySpendings)
      topCategoryEntry ==
        IF Len(sortedCategories) > 0 THEN sortedCategories[1] ELSE Entry(Str_Uncategorized, 0)
  IN [totalIncome |-> income,
      totalExpenses |-> expenses,
      monthlySavings |-> monthlySavings,
      savingsRate |-> IF income > 0 THEN Ratio(monthlySavings * 100, income) ELSE Ratio(0, 1),
      topCategory |-> topCategoryEntry.key,
      topCategoryAmount |-> topCategoryEntry.val,
      topCategories |->
        [i \in 1..Min(3, Len(sortedCategories)) |->
           [category |-> sortedCategories[i].key, amount |-> sortedCategories[i].val,
            percentage |-> IF expenses > 0 THEN Ratio(sortedCategories[i].val * 100, expenses)
                           ELSE Ratio(0, 1)]],
      categorySpendings |-> categorySpendings,
      budgetUtilization |->
        [i \in DOMAIN budgets |-> BudgetUtilizationOf(budgets[i], categorySpendings)],
      goalProgress |-> IF Len(goals) > 0 THEN GoalProgress(goals[1]) ELSE 0,
      goalTimeRemaining |->
        IF Len(goals) > 0 THEN GoalTimeRemaining(goals[1], monthlySavings) ELSE Months_(0),
      goalDetails |-> [i \in DOMAIN goals |-> GoalDetailOf(goals[i], monthlySavings)]]

\* useState({...}) of financialData; the fields the initial object lacks are empty
InitialFinancialData ==
  [totalIncome |-> 0, totalExpenses |-> 0, monthlySavings |-> 0, savingsRate |-> Ratio(0, 1),
   topCategory |-> Str_Food, topCategoryAmount |-> 0, topCategories |-> <<>>,
   categorySpendings |-> <<>>, budgetUtilization |-> <<>>, goalProgress |-> 0,
   goalTimeRemaining |-> Months_(0), goalDetails |-> <<>>]

\* fetching: the fetchFinancialData call of the mount effect has not settled yet;
\* transactions: the list that call computed financialData from (its local const)
AssistantInit ==
  [fetching |-> TRUE, financialData |-> InitialFinancialData, transactions |-> <<>>]

\* fetchFinancialData settles: Promise.all rejects when any request rejects, and the
\* catch block leaves financialData alone (getGoals never rejects, authService.js 446-454)
FetchFinancialData ==
  /\ route = "assistant"
  /\ assistant.fetching
  /\ \E tr \in FetchResults(AssistantTxLists), br \in FetchResults(BudgetLists),
        goals \in GoalLists :
       assistant' =
         IF tr.ok /\ br.ok
           THEN [fetching |-> FALSE,
                 financialData |-> ComputedFinancialData(tr.data, br.data, goals),
                 transactions |-> tr.data]
           ELSE [assistant EXCEPT !.fetching = FALSE]
  /\ UNCHANGED otherVars
  /\ UNCHANGED <<route, now, analysis, dashboard, budgetPage, goalsPage>>

(***************************************************************************)
(* Budget page (src/frontend/src/pages/Dashboard.js, lines 1040-1347).     *)
(***************************************************************************)
\* the budgets the Budget page is given: the usage values around 70 and 85
BudgetPageUniverse ==
  {Budget(Str_Food, 100, sp) : sp \in {0, 69, 70, 71, 84, 85, 86, 150}}
    \cup {Budget(Str_Food, 200, 139), Budget(Str_Food, 200, 169), Budget(Str_Salary, 0, 0),
          Budget(Str_Salary, 0, 10)}

BudgetPageLists == SeqsUpTo(BudgetPageUniverse, 1)

\* calculateUsage, for spent >= 0 and amount >= 0; a division by 0 gives Infinity,
\* which Math.min(100, .) turns into 100
calculateUsage(budget) ==
  IF budget.spent = 0 THEN 0
  ELSE IF budget.amount = 0 THEN 100
  ELSE Min(100, RoundPercent(budget.spent, budget.amount))

\* BarColor with the comparisons made inclusive (>= for >)
BarColor_Inclusive(budget) ==
  IF calculateUsage(budget) >= 85 THEN "error.main"
  ELSE IF calculateUsage(budget) >= 70 THEN "warning.main"
  ELSE "success.main"

\* the backgroundColor of the LinearProgress bar
BarColor(budget) ==
  IF calculateUsage(budget) > 85 THEN "error.main"
  ELSE IF calculateUsage(budget) > 70 THEN "warning.main"
  ELSE "success.main"

\* no call of budgetService.createBudget / updateBudget in the last step
NoBudgetRequest == [kind |-> "none", amount |-> StringField(<<>>)]

\* the formData of the Budget dialog (period is 'monthly' or another non-empty
\* option of its select, and is left out)
EmptyBudgetForm == [category |-> <<>>, amount |-> StringField(<<>>)]

\* request: the budgetService write the last step made, with the amount it passed
BudgetInit ==
  [loading |-> TRUE, budgets |-> <<>>, alert |-> "none", openDialog |-> FALSE,
   editingBudgetId |-> 0, formData |-> EmptyBudgetForm, request |-> NoBudgetRequest]

\* fetchBudgets settles (a logged-in user; `spent: budget.spent || 0` keeps a number)
FetchBudgets ==
  /\ route = "budget"
  /\ budgetPage.loading
  /\ \E r \in FetchResults(BudgetPageLists) :
       budgetPage' =
         IF r.ok THEN [budgetPage EXCEPT !.loading = FALSE, !.budgets = r.data,
                                         !.request = NoBudgetRequest]
         ELSE [budgetPage EXCEPT !.loading = FALSE, !.alert = "error",
                                 !.request = NoBudgetRequest]
  /\ UNCHANGED otherVars
  /\ UNCHANGED <<route, now, analysis, dashboard, assistant, goalsPage>>

\* handleOpenDialog of the Budget page: i = 0 is the Add button, i > 0 the Edit
\* button of the i-th budget card (the cards are rendered when not loading)
Budget_handleOpenDialog ==
  /\ route = "budget"
  /\ ~budgetPage.openDialog
  /\ \E i \in 0..Len(budgetPage.budgets) :
       /\ i > 0 => ~budgetPage.loading
       /\ budgetPage' =
            [budgetPage EXCEPT
               !.formData =
                  IF i > 0
                    THEN [category |-> budgetPage.budgets[i].category,
                          amount |-> NumberField(budgetPage.budgets[i].amount)]
                    ELSE EmptyBudgetForm,
               !.editingBudgetId = i,
               !.openDialog = TRUE,
               !.request = NoBudgetRequest]
  /\ UNCHANGED otherVars
  /\ UNCHANGED <<route, now, analysis, dashboard, assistant, goalsPage>>

\* handleCloseDialog of the Budget page (Cancel, or closing the dialog)
Budget_handleCloseDialog ==
  /\ route = "budget"
  /\ budgetPage.openDialog
  /\ budgetPage' = [budgetPage EXCEPT !.openDialog = FALSE, !.request = NoBudgetRequest]
  /\ UNCHANGED otherVars
  /\ UNCHANGED <<route, now, analysis, dashboard, assistant, goalsPage>>

\* handleInputChange of the Budget page, for the category select and the amount field
Budget_handleInputChange ==
  /\ route = "budget"
  /\ budgetPage.openDialog
  /\ \/ \E value \in {Str_Food, Str_Salary} :
          budgetPage' = [budgetPage EXCEPT !.formData.category = value,
                                           !.request = NoBudgetRequest]
     \/ \E value \in TypedAmounts :
          budgetPage' = [budgetPage EXCEPT
                           !.formData.amount = StringField(StripNonNumeric(value)),
                           !.request = NoBudgetRequest]
  /\ UNCHANGED otherVars
  /\ UNCHANGED <<route, now, analysis, dashboard, assistant, goalsPage>>

\* the disabled condition of the Save button of the Budget dialog
BudgetSaveDisabled(formData) ==
  ~Truthy(formData.category) \/ ~FieldTruthy(formData.amount)

\* handleSaveBudget, from the Save button; ok: the service call resolves. On success
\* it shows the alert, starts fetchBudgets (setLoading(true)) and closes the dialog
handleSaveBudget ==
  /\ route = "budget"
  /\ budgetPage.openDialog
  /\ ~BudgetSaveDisabled(budgetPage.formData)
  /\ \E ok \in BOOLEAN :
       LET request == [kind |-> IF budgetPage.editingBudgetId # 0 THEN "updateBudget"
                                ELSE "createBudget",
                       amount |-> budgetPage.formData.amount]
       IN budgetPage' =
            IF ok THEN [budgetPage EXCEPT !.request = request, !.alert = "success",
                                          !.loading = TRUE, !.openDialog = FALSE]
            ELSE [budgetPage EXCEPT !.request = request, !.alert = "error"]
  /\ UNCHANGED otherVars
  /\ UNCHANGED <<route, now, analysis, dashboard, assistant, goalsPage>>

(***************************************************************************)
(* Goals page (src/frontend/src/context/AuthContext.js, lines 352-480).    *)
(***************************************************************************)
\* calculateProgress, for targetAmount > 0
calculateProgress(goal) == Min(100, RoundPercent(goal.currentAmount, goal.targetAmount))

\* no call of goalService.createGoal / updateGoal in the last step
NoGoalRequest == [kind |-> "none", targetAmount |-> NaN, currentAmount |-> NaN]

\* the formData of a new goal; targetDate is a Date ("date") or null
EmptyGoalForm ==
  [name |-> "", category |-> <<>>, targetAmount |-> <<>>, currentAmount |-> <<"0">>,
   targetDate |-> "date"]

\* request: the goalService write the last step made, with the amounts of its payload
GoalsInit ==
  [loading |-> TRUE, goals |-> <<>>, openDialog |-> FALSE, editingGoalId |-> 0,
   formData |-> EmptyGoalForm, request |-> NoGoalRequest]

\* fetchGoals settles (getGoals resolves to [] when the request fails)
FetchGoals ==
  /\ route = "goals"
  /\ goalsPage.loading
  /\ \E r \in FetchResults(GoalLists) :
       goalsPage' = [goalsPage EXCEPT !.loading = FALSE, !.goals = OrEmpty(r),
                                      !.request = NoGoalRequest]
  /\ UNCHANGED otherVars
  /\ UNCHANGED <<route, now, analysis, dashboard, assistant, budgetPage>>

\* handleOpenDialog of the Goals page: i = 0 is the Add button, i > 0 the Edit
\* button of the i-th goal card (the cards are rendered when not loading)
Goals_handleOpenDialog ==
  /\ route = "goals"
  /\ ~goalsPage.openDialog
  /\ \E i \in 0..Len(goalsPage.goals) :
       /\ i > 0 => ~goalsPage.loading
       /\ goalsPage' =
            [goalsPage EXCEPT
               !.formData =
                  IF i > 0
                    THEN [name |-> goalsPage.goals[i].name,
                          category |-> goalsPage.goals[i].category,
                          targetAmount |-> NumberToString(goalsPage.goals[i].targetAmount),
                          currentAmount |-> NumberToString(goalsPage.goals[i].currentAmount),
                          targetDate |-> "date"]
                    ELSE EmptyGoalForm,
               !.editingGoalId = i,
               !.openDialog = TRUE,
               !.request = NoGoalRequest]
  /\ UNCHANGED otherVars
  /\ UNCHANGED <<route, now, analysis, dashboard, assistant, budgetPage>>

\* handleCloseDialog of the Goals page (Cancel, or closing the dialog)
Goals_handleCloseDialog ==
  /\ route = "goals"
  /\ goalsPage.openDialog
  /\ goalsPage' = [goalsPage EXCEPT !.openDialog = FALSE, !.request = NoGoalRequest]
  /\ UNCHANGED otherVars
  /\ UNCHANGED <<route, now, analysis, dashboard, assistant, budgetPage>>

\* handleInputChange of the Goals page: the two amounts are stripped, the name and
\* the category are stored as given
Goals_handleInputChange ==
  /\ route = "goals"
  /\ goalsPage.openDialog
  /\ \/ \E value \in {"", "Trip"} :
          goalsPage' = [goalsPage EXCEPT !.formData.name = value, !.request = NoGoalRequest]
     \/ \E value \in {Str_Food} :
          goalsPage' = [goalsPage EXCEPT !.formData.category = value,
                                         !.request = NoGoalRequest]
     \/ \E name \in {"targetAmount", "currentAmount"}, value \in TypedAmounts :
          goalsPage' = [goalsPage EXCEPT !.formData[name] = StripNonNumeric(value),
                                         !.request = NoGoalRequest]
  /\ UNCHANGED otherVars
  /\ UNCHANGED <<route, now, analysis, dashboard, assistant, budgetPage>>

\* handleDateChange: the DatePicker gives a Date, or null when it is cleared
handleDateChange ==
  /\ route = "goals"
  /\ goalsPage.openDialog
  /\ \E date \in {"date", "(null)"} :
       goalsPage' = [goalsPage EXCEPT !.formData.targetDate = date,
                                      !.request = NoGoalRequest]
  /\ UNCHANGED otherVars
  /\ UNCHANGED <<route, now, analysis, dashboard, assistant, budgetPage>>

\* the disabled condition of the Save button of the Goals dialog
GoalSaveDisabled(formData) ==
  \/ formData.name = ""
  \/ ~Truthy(formData.category)
  \/ formData.targetAmount = <<>>
  \/ formData.targetDate = "(null)"

\* handleSaveGoal, from the Save button; ok: the service call resolves. On success
\* it starts fetchGoals (setLoading(true)) and closes the dialog
handleSaveGoal ==
  /\ route = "goals"
  /\ goalsPage.openDialog
  /\ ~GoalSaveDisabled(goalsPage.formData)
  /\ \E ok \in BOOLEAN :
       LET payload ==
             [kind |-> IF goalsPage.editingGoalId # 0 THEN "updateGoal" ELSE "createGoal",
              targetAmount |-> parseFloat(goalsPage.formData.targetAmount),
              currentAmount |->
                 IF goalsPage.formData.currentAmount # <<>>
                   THEN parseFloat(goalsPage.formData.currentAmount)
                   ELSE Num(0, 1)]
       IN goalsPage' =
            IF ok THEN [goalsPage EXCEPT !.request = payload, !.loading = TRUE,
                                         !.openDialog = FALSE]
            ELSE [goalsPage EXCEPT !.request = payload]
  /\ UNCHANGED otherVars
  /\ UNCHANGED <<route, now, analysis, dashboard, assistant, budgetPage>>

(***************************************************************************)
(* The application: one page of the /dashboard routes is mounted at a time *)
(* (src/unnamed/part_001); a page's state is created when it is mounted.   *)
(***************************************************************************)
(***************************************************************************)
(* filterTransactionsByTimeframe as a function of the timeframe             *)
(* (src/frontend/src/pages/Analysis.js, lines 142-161).                     *)
(***************************************************************************)
\* values of the timeframe state: the three of the Select, and others
AnyTimeframes == Timeframes \cup {"week", "Month", ""}

\* transactions that differ in their date only
FilterTxUniverse == {Tx(-20, Str_Food, d, NoType) : d \in TxDates \cup {Recent}}

FilterTxLists == SeqsUpTo(FilterTxUniverse, MaxTx)

\* no call made
NoFilterCall == [called |-> FALSE, timeframe |-> "month", transactions |-> <<>>, result |-> <<>>]

\* the calls that can be made: a timeframe and a list of transactions
FilterCalls ==
  {[called |-> FALSE, timeframe |-> tf, transactions |-> ts, result |-> <<>>] :
     tf \in AnyTimeframes, ts \in FilterTxLists}

\* filterTransactionsByTimeframe(transactions) is called and returns
CallFilter ==
  /\ ~filterCall.called
  /\ filterCall' =
       [filterCall EXCEPT
          !.called = TRUE,
          !.result = filterTransactionsByTimeframe(filterCall.transactions,
                                                   filterCall.timeframe, now)]
  /\ UNCHANGED <<pageVars, fetchOutcome, auth, profilePage, chat, txTable>>

(***************************************************************************)
(* AuthProvider (src/frontend/src/context/AuthContext.js, lines 28-307).    *)
(*  - An object is a record of the properties the provider reads or writes; *)
(*    a property that is missing holds Absent, one that is present and      *)
(*    undefined holds Undefined.                                            *)
(*  - currentUser and the entries of localStorage and sessionStorage are    *)
(*    <<>> (null, no entry) or <<value>>.                                   *)
(*  - A request in flight is a record in the set pending; op and returned   *)
(*    tell which function made the last step and what it gave its caller.   *)
(***************************************************************************)
\* requests in flight at one time
MaxInFlight == 2

Undefined == "(undefined)"
Absent == "(absent)"

\* truthiness of a property value: undefined and '' are falsy
IsSet(v) == v \notin {Undefined, Absent, ""}

\* a || b
OrElse(a, b) == IF IsSet(a) THEN a ELSE b

User(id, username, firstName, lastName, email, phone, avatar) ==
  [id |-> id, username |-> username, firstName |-> firstName, lastName |-> lastName,
   email |-> email, phone |-> phone, avatar |-> avatar]

\* {...null}, {}: no property
EmptyObject == User(Absent, Absent, Absent, Absent, Absent, Absent, Absent)

\* JSON.stringify(object): a property holding undefined is left out
JSONstringify(o) == [k \in DOMAIN o |-> IF o[k] = Undefined THEN Absent ELSE o[k]]

\* JSON.parse(string): the object with the properties the string holds
JSONparse(j) == j

Usernames == {"alice", "bob"}

\* what the backend holds for each account
UserId(username) == IF username = "alice" THEN "1" ELSE "2"
OwnerOf(id) == IF id = "1" THEN "alice" ELSE "bob"
FirstName(username) == IF username = "alice" THEN "Alice" ELSE "Bob"
LastName(username) == IF username = "alice" THEN "Ames" ELSE "Boyd"
Email(username) == IF username = "alice" THEN "alice@x" ELSE "bob@x"

\* userData given to register by the registration form (Register.js 84)
RegisterData(username) ==
  [EmptyObject EXCEPT !.username = username, !.firstName = FirstName(username),
                      !.lastName = LastName(username), !.email = Email(username)]

\* the body of the answer of /api/auth/login (its user_id is the property id of
\* the record), or a rejected request
LoginResponses(username) ==
  {[kind |-> k, body |-> EmptyObject] : k \in {"throw", "failure"}}
    \cup {[kind |-> "success",
           body |-> User(UserId(username), username, Undefined, Undefined, Undefined,
                         Undefined, Absent)],
          [kind |-> "success",
           body |-> User(UserId(username), username, FirstName(username),
                         LastName(username), Email(username), "555", Absent)]}

\* the body of the answer of /api/auth/register, or a rejected request
RegisterResponses == {[kind |-> k, body |-> EmptyObject] : k \in {"throw", "failure", "success"}}

\* the body of the answer of GET /api/users/{id}/profile (null, an object without
\* the four properties, or the stored profile), or a rejected request
ProfileResponses(id) ==
  {[kind |-> k, body |-> EmptyObject] : k \in {"throw", "null", "data"}}
    \cup {[kind |-> "data",
           body |-> [EmptyObject EXCEPT !.firstName = FirstName(OwnerOf(id)),
                                        !.lastName = LastName(OwnerOf(id)),
                                        !.email = Email(OwnerOf(id)),
                                        !.phone = "555"]]}

\* the body of the answer of a PUT /api/users/{id}/..., or a rejected request
UpdateResponses == {[kind |-> k, body |-> EmptyObject] : k \in {"throw", "failure", "success"}}

\* profileData given to updateUserProfile: the five fields of the Profile form
ProfileData(firstName, lastName, email, phone, avatar) ==
  [EmptyObject EXCEPT !.firstName = firstName, !.lastName = lastName, !.email = email,
                      !.phone = phone, !.avatar = avatar]

ProfileEdits == {ProfileData("Zed", "Ames", "alice@x", "777", "")}

\* a request in flight: the function that awaits it, its first argument, and the
\* profileData of updateUserProfile
Request(kind, arg, data) == [kind |-> kind, arg |-> arg, data |-> data]

\* error state: null
NoError == "(null)"

\* the provider before its mount effect: localStorage is empty or holds the user
\* a previous visit stored
StoredUsers ==
  {<<>>,
   <<JSONstringify(User("1", "alice", "Alice", "Ames", "alice@x", "", Undefined))>>,
   <<JSONstringify(User(Undefined, "alice", "", "", "", "", Undefined))>>}

AuthInit ==
  [initialized |-> FALSE, currentUser |-> <<>>, loading |-> TRUE, error |-> NoError,
   localUser |-> <<>>, tempUserData |-> <<>>, pending |-> {},
   op |-> "(none)", returned |-> "(none)"]

\* fetchUserProfile(userId) up to its await
fetchUserProfile(a, userId) ==
  [a EXCEPT !.loading = TRUE,
            !.pending = @ \cup {Request("fetchUserProfile", userId, EmptyObject)}]

\* initializeUser, the mount effect
initializeUser(a) ==
  IF a.localUser # <<>>
    THEN LET parsedUser == JSONparse(a.localUser[1])
             set == [a EXCEPT !.currentUser = <<parsedUser>>]
         IN IF IsSet(parsedUser.id)
              THEN fetchUserProfile(set, parsedUser.id)
              ELSE [set EXCEPT !.loading = FALSE]
    ELSE [a EXCEPT !.loading = FALSE]

\* the object the updater of fetchUserProfile builds from prevUser and userData
FetchedUser(currentUser, userData) ==
  LET prevUser == IF currentUser = <<>> THEN EmptyObject ELSE currentUser[1]
  IN [prevUser EXCEPT
        !.firstName = OrElse(userData.firstName, OrElse(prevUser.firstName, "")),
        !.lastName = OrElse(userData.lastName, OrElse(prevUser.lastName, "")),
        !.email = OrElse(userData.email, OrElse(prevUser.email, "")),
        !.phone = OrElse(userData.phone, OrElse(prevUser.phone, ""))]

\* fetchUserProfile after its await
fetchUserProfileSettles(a, req, response) ==
  LET done == [a EXCEPT !.pending = @ \ {req}, !.loading = FALSE, !.returned = "void"]
  IN CASE response.kind = "throw" ->
            [done EXCEPT !.error = "Failed to fetch user profile data"]
       [] response.kind = "null" -> done
       [] OTHER ->
            LET updatedUser == FetchedUser(a.currentUser, response.body)
            IN [done EXCEPT !.currentUser = <<updatedUser>>,
                            !.localUser = <<JSONstringify(updatedUser)>>]

\* login(username, password) up to its await
login(a, username) ==
  [a EXCEPT !.error = NoError, !.loading = TRUE,
            !.pending = @ \cup {Request("login", username, EmptyObject)},
            !.returned = "pending"]

\* the user object login builds from the response and the temporary data
LoginUser(response, tempUserData) ==
  User(response.id, response.username,   \* id: response.user_id
       OrElse(response.firstName, OrElse(tempUserData.firstName, "")),
       OrElse(response.lastName, OrElse(tempUserData.lastName, "")),
       OrElse(response.email, OrElse(tempUserData.email, "")),
       OrElse(response.phone, ""), Absent)

\* login after its await
loginSettles(a, req, response) ==
  LET done == [a EXCEPT !.pending = @ \ {req}, !.loading = FALSE]
  IN CASE response.kind = "success" ->
            LET tempUserData ==
                  IF a.tempUserData # <<>> THEN JSONparse(a.tempUserData[1]) ELSE EmptyObject
                user == LoginUser(response.body, tempUserData)
            IN [done EXCEPT !.tempUserData = <<>>,
                            !.currentUser = <<user>>,
                            !.localUser = <<JSONstringify(user)>>,
                            !.returned = "success"]
       [] response.kind = "failure" ->
            [done EXCEPT !.error = "Login failed", !.returned = "failure"]
       [] OTHER ->
            [done EXCEPT !.error = "An error occurred during login", !.returned = "failure"]

\* register(userData) up to its await
register(a, userData) ==
  [a EXCEPT !.error = NoError, !.loading = TRUE,
            !.pending = @ \cup {Request("register", userData.username, userData)},
            !.returned = "pending"]

\* register after its await: on success it stores the temporary data and returns
\* the promise of login, whose first part has run when the finally block runs
registerSettles(a, req, response) ==
  LET done == [a EXCEPT !.pending = @ \ {req}]
  IN CASE response.kind = "success" ->
            LET userData == req.data
                tempUserData == [EmptyObject EXCEPT !.firstName = userData.firstName,
                                                    !.lastName = userData.lastName,
                                                    !.email = userData.email]
                stored == [done EXCEPT !.tempUserData = <<JSONstringify(tempUserData)>>]
            IN [login(stored, userData.username) EXCEPT !.loading = FALSE]
       [] response.kind = "failure" ->
            [done EXCEPT !.error = "Registration failed", !.loading = FALSE,
                         !.returned = "failure"]
       [] OTHER ->
            [done EXCEPT !.error = "An error occurred during registration",
                         !.loading = FALSE, !.returned = "failure"]

\* logout that leaves the entry of localStorage in place
logout_KeepsStorage(a) == [a EXCEPT !.currentUser = <<>>, !.returned = "void"]

\* logout()
logout(a) == [a EXCEPT !.currentUser = <<>>, !.localUser = <<>>, !.returned = "void"]

\* the guard of updateUserProfile and updateUserPassword
NotLoggedIn(a) == a.currentUser = <<>> \/ ~IsSet(a.currentUser[1].id)

\* updateUserProfile(profileData) up to its await, or to its end when it throws
updateUserProfile(a, profileData) ==
  IF NotLoggedIn(a)
    THEN [a EXCEPT !.error = "User not logged in", !.loading = FALSE,
                   !.returned = "failure"]
    ELSE [a EXCEPT !.error = NoError, !.loading = TRUE,
                   !.pending = @ \cup {Request("updateUserProfile", a.currentUser[1].id,
                                               profileData)},
                   !.returned = "pending"]

\* {...prevUser, ...profileData}
UpdatedUser(currentUser, profileData) ==
  LET prevUser == IF currentUser = <<>> THEN EmptyObject ELSE currentUser[1]
  IN [prevUser EXCEPT !.firstName = profileData.firstName,
                      !.lastName = profileData.lastName,
                      !.email = profileData.email,
                      !.phone = profileData.phone,
                      !.avatar = profileData.avatar]

\* updateUserProfile after its await
updateUserProfileSettles(a, req, response) ==
  LET done == [a EXCEPT !.pending = @ \ {req}, !.loading = FALSE]
  IN IF response.kind = "success"
       THEN LET updatedUser == UpdatedUser(a.currentUser, req.data)
            IN [done EXCEPT !.currentUser = <<updatedUser>>,
                            !.localUser = <<JSONstringify(updatedUser)>>,
                            !.returned = "success"]
       ELSE [done EXCEPT !.error = "Failed to update profile", !.returned = "failure"]

\* updateUserPassword(currentPassword, newPassword) up to its await, or to its end
updateUserPassword(a) ==
  IF NotLoggedIn(a)
    THEN [a EXCEPT !.error = "User not logged in", !.loading = FALSE,
                   !.returned = "failure"]
    ELSE [a EXCEPT !.error = NoError, !.loading = TRUE,
                   !.pending = @ \cup {Request("updateUserPassword", a.currentUser[1].id,
                                               EmptyObject)},
                   !.returned = "pending"]

\* updateUserPassword after its await
updateUserPasswordSettles(a, req, response) ==
  LET done == [a EXCEPT !.pending = @ \ {req}, !.loading = FALSE]
  IN IF response.kind = "success"
       THEN [done EXCEPT !.returned = "success"]
       ELSE [done EXCEPT !.error = "Failed to update password", !.returned = "failure"]

\* the requests of one function that are in flight
Pending(a, kind) == {req \in a.pending : req.kind = kind}

\* a further request can be started
CanStart(a) == a.initialized /\ Cardinality(a.pending) < MaxInFlight

\* the steps of the provider; each leaves the name of its function in op
AuthStep(a, op) == auth' = [a EXCEPT !.op = op]

AuthUnchanged == UNCHANGED <<pageVars, filterCall, fetchOutcome, profilePage, chat, txTable>>

\* the mount effect of the provider
InitializeUser ==
  /\ ~auth.initialized
  /\ AuthStep([initializeUser(auth) EXCEPT !.initialized = TRUE, !.returned = "void"],
              "initializeUser")
  /\ AuthUnchanged

FetchUserProfileSettles ==
  /\ \E req \in Pending(auth, "fetchUserProfile") : \E response \in ProfileResponses(req.arg) :
       AuthStep(fetchUserProfileSettles(auth, req, response), "fetchUserProfile")
  /\ AuthUnchanged

\* the Login page calls login (Login.js 41)
Login ==
  /\ CanStart(auth)
  /\ \E username \in Usernames : AuthStep(login(auth, username), "login")
  /\ AuthUnchanged

LoginSettles ==
  /\ \E req \in Pending(auth, "login") : \E response \in LoginResponses(req.arg) :
       AuthStep(loginSettles(auth, req, response), "login")
  /\ AuthUnchanged

\* the Register page calls register (Register.js 84)
Register ==
  /\ CanStart(auth)
  /\ AuthStep(register(auth, RegisterData("alice")), "register")
  /\ AuthUnchanged

RegisterSettles ==
  /\ \E req \in Pending(auth, "register") : \E response \in RegisterResponses :
       AuthStep(registerSettles(auth, req, response), "register")
  /\ AuthUnchanged

\* a page calls logout (Register.js 429)
Logout ==
  /\ auth.initialized
  /\ AuthStep(logout(auth), "logout")
  /\ AuthUnchanged

\* a page calls updateUserProfile (Register.js 369)
UpdateUserProfile ==
  /\ CanStart(auth)
  /\ \E profileData \in ProfileEdits :
       AuthStep(updateUserProfile(auth, profileData), "updateUserProfile")
  /\ AuthUnchanged

UpdateUserProfileSettles ==
  /\ \E req \in Pending(auth, "updateUserProfile") : \E response \in UpdateResponses :
       AuthStep(updateUserProfileSettles(auth, req, response), "updateUserProfile")
  /\ AuthUnchanged

(***************************************************************************)
(* fetchData of the Analysis page with its inputs on record.               *)
(***************************************************************************)
Rejected == [ok |-> FALSE, data |-> <<>>]

\* the stored user and the results of the three requests of the last fetchData
FetchOutcomeInit ==
  [stored |-> "(not called)", transactions |-> Rejected, budgets |-> Rejected,
   goals |-> Rejected]

\* fetchData completes, then the chart effect runs; without a user no request is
\* made
FetchData ==
  /\ route = "analysis"
  /\ analysis.loading
  /\ \E stored \in StoredUserKinds :
     \E tr \in IF stored = "user" THEN FetchResults(AnalysisTxLists) ELSE {Rejected} :
     \E bg \in IF stored = "user" THEN BudgetAndGoalResults ELSE {<<Rejected, Rejected>>} :
       /\ analysis' = prepareChartData(fetchData(analysis, stored, tr, bg[1], bg[2]), now)
       /\ fetchOutcome' = [stored |-> stored, transactions |-> tr, budgets |-> bg[1],
                           goals |-> bg[2]]
  /\ UNCHANGED <<route, now, dashboard, assistant, budgetPage, goalsPage>>
  /\ UNCHANGED <<filterCall, auth, profilePage, chat, txTable>>

(***************************************************************************)
(* The Profile page (Register.js 281-440).                                 *)
(***************************************************************************)
\* the five fields the form shows for a user (Register.js 328-334)
ProfileOf(currentUser) ==
  ProfileData(OrElse(currentUser.firstName, ""), OrElse(currentUser.lastName, ""),
              OrElse(currentUser.email, ""), OrElse(currentUser.phone, ""),
              OrElse(currentUser.avatar, ""))

PasswordData(currentPassword, newPassword, confirmPassword) ==
  [currentPassword |-> currentPassword, newPassword |-> newPassword,
   confirmPassword |-> confirmPassword]

\* what the user types into the password dialog
PasswordInputs == {PasswordData("old", "new", "new"), PasswordData("old", "new", "nwe")}

Message(text, severity) == [text |-> text, severity |-> severity]

\* the state hooks of the page
ProfileInit ==
  [loading |-> FALSE, message |-> Message("", "success"), openSnackbar |-> FALSE,
   openPasswordDialog |-> FALSE, editMode |-> FALSE,
   profileData |-> ProfileData("", "", "", "", ""),
   passwordData |-> PasswordData("", "", ""), op |-> "(none)"]

showMessage(p, text, severity) ==
  [p EXCEPT !.message = Message(text, severity), !.openSnackbar = TRUE]

handleCloseSnackbar(p) == [p EXCEPT !.openSnackbar = FALSE]

toggleEditMode(p, currentUser) ==
  [p EXCEPT !.editMode = ~p.editMode,
            !.profileData = IF p.editMode THEN ProfileOf(currentUser) ELSE @]

handleOpenPasswordDialog(p) == [p EXCEPT !.openPasswordDialog = TRUE]

handleClosePasswordDialog(p) ==
  [p EXCEPT !.openPasswordDialog = FALSE, !.passwordData = PasswordData("", "", "")]

\* handleSaveProfile after its await: the value updateUserProfile resolved with
\* is not read
handleSaveProfileResumes(p) ==
  [showMessage([p EXCEPT !.editMode = FALSE], "Profile updated successfully", "success")
     EXCEPT !.loading = FALSE]

\* handleUpdatePassword after its await: the value updateUserPassword resolved
\* with is not read
handleUpdatePasswordResumes(p) ==
  [showMessage(handleClosePasswordDialog(p), "Password updated successfully", "success")
     EXCEPT !.loading = FALSE]

\* the effect on currentUser (Register.js 326-336)
CurrentUserEffect(p, before, after) ==
  IF after.currentUser # before.currentUser /\ after.currentUser # <<>>
    THEN [p EXCEPT !.profileData = ProfileOf(after.currentUser[1])]
    ELSE p

\* a step of the page: the handler that ran is left in op
ProfileStep(p, op) == profilePage' = [p EXCEPT !.op = op]

ProfileUnchanged == UNCHANGED <<pageVars, filterCall, fetchOutcome, chat, txTable>>

ToggleEditMode ==
  /\ ProfileStep(toggleEditMode(profilePage, auth.currentUser[1]), "toggleEditMode")
  /\ UNCHANGED auth
  /\ ProfileUnchanged

\* the fields are enabled in edit mode (Register.js 478)
HandleProfileInputChange ==
  /\ profilePage.editMode
  /\ \E profileData \in ProfileEdits :
       ProfileStep([profilePage EXCEPT !.profileData = profileData],
                   "handleProfileInputChange")
  /\ UNCHANGED auth
  /\ ProfileUnchanged

\* the Save button is shown in edit mode and disabled while loading
\* (Register.js 518-523); with no user id updateUserProfile resolves without a
\* request and the handler resumes in the same task
HandleSaveProfile ==
  /\ profilePage.editMode /\ ~profilePage.loading
  /\ LET started == updateUserProfile(auth, profilePage.profileData)
         waiting == [profilePage EXCEPT !.loading = TRUE]
     IN /\ AuthStep(started, "updateUserProfile")
        /\ ProfileStep(IF started.returned = "pending"
                         THEN waiting
                         ELSE handleSaveProfileResumes(waiting),
                       "handleSaveProfile")
  /\ ProfileUnchanged

SaveProfileSettles ==
  /\ \E req \in Pending(auth, "updateUserProfile") : \E response \in UpdateResponses :
       LET settled == updateUserProfileSettles(auth, req, response)
       IN /\ AuthStep(settled, "updateUserProfile")
          /\ ProfileStep(CurrentUserEffect(handleSaveProfileResumes(profilePage),
                                           auth, settled),
                         "handleSaveProfile")
  /\ ProfileUnchanged

HandleOpenPasswordDialog ==
  /\ ~profilePage.openPasswordDialog
  /\ ProfileStep(handleOpenPasswordDialog(profilePage), "handleOpenPasswordDialog")
  /\ UNCHANGED auth
  /\ ProfileUnchanged

HandleClosePasswordDialog ==
  /\ profilePage.openPasswordDialog
  /\ ProfileStep(handleClosePasswordDialog(profilePage), "handleClosePasswordDialog")
  /\ UNCHANGED auth
  /\ ProfileUnchanged

HandlePasswordInputChange ==
  /\ profilePage.openPasswordDialog
  /\ \E passwordData \in PasswordInputs :
       ProfileStep([profilePage EXCEPT !.passwordData = passwordData],
                   "handlePasswordInputChange")
  /\ UNCHANGED auth
  /\ ProfileUnchanged

\* the button of the dialog is disabled while loading or while a field is empty
\* (Register.js 761)
HandleUpdatePassword ==
  /\ profilePage.openPasswordDialog /\ ~profilePage.loading
  /\ profilePage.passwordData.currentPassword # ""
  /\ profilePage.passwordData.newPassword # ""
  /\ profilePage.passwordData.confirmPassword # ""
  /\ IF profilePage.passwordData.newPassword # profilePage.passwordData.confirmPassword
       THEN /\ ProfileStep(showMessage(profilePage, "New passwords do not match", "error"),
                           "handleUpdatePassword")
            /\ UNCHANGED auth
       ELSE LET started == updateUserPassword(auth)
                waiting == [profilePage EXCEPT !.loading = TRUE]
            IN /\ AuthStep(started, "updateUserPassword")
               /\ ProfileStep(IF started.returned = "pending"
                                THEN waiting
                                ELSE handleUpdatePasswordResumes(waiting),
                              "handleUpdatePassword")
  /\ ProfileUnchanged

UpdatePasswordSettles ==
  /\ \E req \in Pending(auth, "updateUserPassword") : \E response \in UpdateResponses :
       /\ AuthStep(updateUserPasswordSettles(auth, req, response), "updateUserPassword")
       /\ ProfileStep(handleUpdatePasswordResumes(profilePage), "handleUpdatePassword")
  /\ ProfileUnchanged

HandleCloseSnackbar ==
  /\ profilePage.openSnackbar
  /\ ProfileStep(handleCloseSnackbar(profilePage), "handleCloseSnackbar")
  /\ UNCHANGED auth
  /\ ProfileUnchanged

(***************************************************************************)
(* The conversation of the AI assistant (AIAssistant.js 340-527, 531-705). *)
(***************************************************************************)
MaxChatInFlight == 2
MaxMessages == 2

\* what the user types, and the texts of the buttons (letters and spaces only;
\* the suggestions are abridged to the words categorizeQuery looks for)
Str_hi == <<"h", "i", " ">>
Str_SaveGoal ==
  <<"S", "a", "v", "e", " ", "f", "o", "r", " ", "a", " ", "g", "o", "a", "l">>
Str_QuickBudget ==
  <<"H", "o", "w", "s", " ", "m", "y", " ", "b", "u", "d", "g", "e", "t", " ", "t",
    "h", "i", "s", " ", "m", "o", "n", "t", "h">>
Str_SuggestBudget ==
  <<"s", "e", "e", " ", "y", "o", "u", "r", " ", "b", "u", "d", "g", "e", "t", " ",
    "b", "r", "e", "a", "k", "d", "o", "w", "n">>
Str_SuggestSavings ==
  <<"s", "t", "r", "a", "t", "e", "g", "i", "e", "s", " ", "t", "o", " ", "s", "a",
    "v", "e">>
Str_SuggestGoals ==
  <<"r", "e", "a", "c", "h", " ", "y", "o", "u", "r", " ", "g", "o", "a", "l", "s",
    " ", "f", "a", "s", "t", "e", "r">>
Str_SuggestInvestment ==
  <<"b", "e", "g", "i", "n", "n", "i", "n", "g", " ", "i", "n", "v", "e", "s", "t",
    "m", "e", "n", "t", " ", "s", "t", "r", "a", "t", "e", "g", "i", "e", "s">>
Str_budget == <<"b", "u", "d", "g", "e", "t">>
Str_spend == <<"s", "p", "e", "n", "d">>
Str_save == <<"s", "a", "v", "e">>
Str_saving == <<"s", "a", "v", "i", "n", "g">>
Str_goal == <<"g", "o", "a", "l">>
Str_target == <<"t", "a", "r", "g", "e", "t">>
Str_invest == <<"i", "n", "v", "e", "s", "t">>
Str_investment == <<"i", "n", "v", "e", "s", "t", "m", "e", "n", "t">>

Queries == {Str_blank, Str_hi, Str_SaveGoal}

\* String.prototype.includes
includes(s, sub) ==
  \E i \in 0..(Len(s) - Len(sub)) : SubSeq(s, i + 1, i + Len(sub)) = sub

categorizeQuery(query) ==
  LET lowerQuery == toLowerCase(query)
  IN IF includes(lowerQuery, Str_budget) \/ includes(lowerQuery, Str_spend) THEN "budget"
     ELSE IF includes(lowerQuery, Str_save) \/ includes(lowerQuery, Str_saving) THEN "savings"
     ELSE IF includes(lowerQuery, Str_goal) \/ includes(lowerQuery, Str_target) THEN "goals"
     ELSE IF includes(lowerQuery, Str_invest) \/ includes(lowerQuery, Str_investment)
       THEN "investment"
     ELSE "general"

\* a message of the list: a fixed text of the assistant, the text the user sent,
\* or a suggestion button
ChatMessage(sender, text) ==
  [sender |-> sender, text |-> text, sent |-> <<>>, suggestion |-> <<>>]
UserMessage(sent) ==
  [sender |-> "user", text |-> Absent, sent |-> sent, suggestion |-> <<>>]
SuggestionMessage(suggestion) ==
  [sender |-> "assistant", text |-> Absent, sent |-> <<>>, suggestion |-> suggestion]

WelcomeMessage == ChatMessage("assistant", "(welcome)")
ClearedMessage ==
  ChatMessage("assistant", "Chat history cleared. How can I help you today?")

\* addRelevantSuggestion(query): the messages it appends
addRelevantSuggestion(query) ==
  LET queryType == categorizeQuery(query)
  IN CASE queryType = "budget" -> <<SuggestionMessage(Str_SuggestBudget)>>
       [] queryType = "savings" -> <<SuggestionMessage(Str_SuggestSavings)>>
       [] queryType = "goals" -> <<SuggestionMessage(Str_SuggestGoals)>>
       [] queryType = "investment" -> <<SuggestionMessage(Str_SuggestInvestment)>>
       [] OTHER -> <<>>

\* a request of the assistant in flight: the function that awaits it and the
\* query it sent
ChatRequest(kind, query) == [kind |-> kind, query |-> query]

\* the answers of the AI service
QueryResponses == {"throw", "error", "success"}
AdviceResponses ==
  {[kind |-> k, advice |-> 0, predictions |-> 0] : k \in {"throw", "error"}}
    \cup {[kind |-> "success", advice |-> a, predictions |-> p] : a \in 0..1, p \in 0..1}
GoalsResponses ==
  {[kind |-> k, recommendations |-> 0] : k \in {"throw", "null"}}
    \cup {[kind |-> "analysis", recommendations |-> r] : r \in 0..1}

\* the texts a run of timers will append, in the order of their delays
Repeat(text, n) == [i \in 1..n |-> ChatMessage("assistant", text)]
AdviceTimers(response) ==
  Repeat("(tip)", response.advice)
    \o (IF response.predictions > 0
          THEN <<ChatMessage("assistant", "Financial predictions based on your data:")>>
                 \o Repeat("(prediction)", response.predictions)
          ELSE <<>>)
GoalsTimers(response) ==
  IF response.recommendations > 0
    THEN <<ChatMessage("assistant", "Recommendations to reach your goals faster:")>>
           \o Repeat("(recommendation)", response.recommendations)
    ELSE <<>>

\* the state hooks of the page that the conversation uses; hasGoals stands for a
\* non-empty financialData.goalDetails, timers for the timeouts that are set,
\* quiet for: the chat was cleared and the user has done nothing since
ChatInit ==
  [messages |-> <<WelcomeMessage>>, input |-> <<>>, loading |-> FALSE,
   hasGoals |-> FALSE, pending |-> <<>>, timers |-> <<>>, quiet |-> FALSE,
   op |-> "(none)"]

RemoveAt(s, i) == [j \in 1..(Len(s) - 1) |-> IF j < i THEN s[j] ELSE s[j + 1]]

\* a run of timers is recorded when it has something to append
SetTimers(timers, run) == IF run = <<>> THEN timers ELSE Append(timers, run)

handleSendMessage(c) ==
  IF trim(c.input) = <<>>
    THEN c
    ELSE [c EXCEPT !.input = <<>>,
                   !.messages = Append(@, UserMessage(trim(c.input))),
                   !.loading = TRUE,
                   !.pending = Append(@, ChatRequest("handleSendMessage", trim(c.input)))]

handleSendMessageSettles(c, i, response) ==
  LET done == [c EXCEPT !.pending = RemoveAt(@, i), !.loading = FALSE]
  IN CASE response = "success" ->
            [done EXCEPT !.messages = Append(@, ChatMessage("assistant", "(response)"))
                                        \o addRelevantSuggestion(c.pending[i].query)]
       [] response = "error" ->
            [done EXCEPT !.messages = Append(@, ChatMessage("assistant",
               "I'm sorry, I couldn't process your request. Please try again."))]
       [] OTHER ->
            [done EXCEPT !.messages = Append(@, ChatMessage("assistant",
               "I'm sorry, something went wrong. Please try again later."))]

\* handleSuggestionClick(suggestion): setInput and handleSuggestionInput
handleSuggestionClick(c, suggestion) ==
  IF trim(suggestion) = <<>>
    THEN [c EXCEPT !.input = suggestion]
    ELSE [c EXCEPT !.input = suggestion,
                   !.messages = Append(@, UserMessage(suggestion)),
                   !.loading = TRUE,
                   !.pending = Append(@, ChatRequest("handleSuggestionInput", suggestion))]

\* a response without status is read here: only a rejected request is an error
handleSuggestionInputSettles(c, i, response) ==
  LET done == [c EXCEPT !.pending = RemoveAt(@, i), !.loading = FALSE, !.input = <<>>]
  IN IF response = "throw"
       THEN [done EXCEPT !.messages = Append(@, ChatMessage("assistant",
               "I'm sorry, I encountered an error. Please try again later."))]
       ELSE [done EXCEPT !.messages = Append(@, ChatMessage("assistant", "(response)"))
                                        \o addRelevantSuggestion(c.pending[i].query)]

handleClearChat(c) == [c EXCEPT !.messages = <<ClearedMessage>>]

getPersonalizedAdvice(c) ==
  [c EXCEPT !.loading = TRUE,
            !.pending = Append(@, ChatRequest("getPersonalizedAdvice", <<>>))]

getPersonalizedAdviceSettles(c, i, response) ==
  LET done == [c EXCEPT !.pending = RemoveAt(@, i), !.loading = FALSE]
  IN CASE response.kind = "success" ->
            [done EXCEPT !.messages = Append(@, ChatMessage("assistant", "(advice intro)")),
                         !.timers = SetTimers(@, AdviceTimers(response))]
       [] response.kind = "error" ->
            [done EXCEPT !.messages = Append(@, ChatMessage("assistant",
               "I couldn't generate personalized advice at this time. Please try again later."))]
       [] OTHER ->
            [done EXCEPT !.messages = Append(@, ChatMessage("assistant",
               "I'm sorry, I encountered an error getting personalized advice. Please try again later."))]

analyzeFinancialGoals(c) ==
  IF ~c.hasGoals
    THEN [c EXCEPT !.messages = Append(@, ChatMessage("assistant",
            "You don't have any financial goals set up yet. Would you like to create one?")),
                   !.loading = FALSE]
    ELSE [c EXCEPT !.loading = TRUE,
                   !.pending = Append(@, ChatRequest("analyzeFinancialGoals", <<>>))]

analyzeFinancialGoalsSettles(c, i, response) ==
  LET done == [c EXCEPT !.pending = RemoveAt(@, i), !.loading = FALSE]
  IN CASE response.kind = "analysis" ->
            [done EXCEPT !.messages = Append(@, ChatMessage("assistant", "(analysis)")),
                         !.timers = SetTimers(@, GoalsTimers(response))]
       [] response.kind = "null" ->
            [done EXCEPT !.messages = Append(@, ChatMessage("assistant",
               "I couldn't analyze your goals at this time. Please try again later."))]
       [] OTHER ->
            [done EXCEPT !.messages = Append(@, ChatMessage("assistant",
               "I'm sorry, I encountered an error analyzing your goals. Please try again later."))]

showProfileForm(c, hasUserId) ==
  [c EXCEPT !.messages = Append(@, ChatMessage("assistant",
     IF hasUserId THEN "(accessing your profile)" ELSE "(please log in)"))]

\* the first timeout of run i fires
timerFires(c, i) ==
  [c EXCEPT !.messages = Append(@, c.timers[i][1]),
            !.timers = IF Len(c.timers[i]) = 1
                         THEN RemoveAt(@, i)
                         ELSE [@ EXCEPT ![i] = Tail(@)]]

\* the user can begin something more
CanAsk(c) ==
  /\ Len(c.messages) < MaxMessages
  /\ Len(c.pending) + Len(c.timers) < MaxChatInFlight

\* a step of the user, of a response or of a timer; the function is left in op
ChatStep(c, op, byUser) ==
  chat' = [c EXCEPT !.op = op, !.quiet = IF byUser THEN FALSE ELSE @]

ChatUnchanged == UNCHANGED <<pageVars, filterCall, fetchOutcome, auth, profilePage, txTable>>

HandleInputChange ==
  /\ \E text \in Queries \ {chat.input} :
       ChatStep([chat EXCEPT !.input = text], "handleInputChange", TRUE)
  /\ ChatUnchanged

\* the Send button (disabled while loading or without text) or the Enter key
\* (handleKeyPress, which looks at neither)
HandleSendMessage ==
  /\ CanAsk(chat)
  /\ ChatStep(handleSendMessage(chat), "handleSendMessage", TRUE)
  /\ ChatUnchanged

HandleSendMessageSettles ==
  /\ \E i \in DOMAIN chat.pending : \E response \in QueryResponses :
       /\ chat.pending[i].kind = "handleSendMessage"
       /\ ChatStep(handleSendMessageSettles(chat, i, response), "handleSendMessage", FALSE)
  /\ ChatUnchanged

\* the first quick suggestion, or the button of a suggestion in the list
HandleSuggestionClick ==
  /\ CanAsk(chat)
  /\ \E suggestion \in ({Str_QuickBudget}
                          \cup {chat.messages[i].suggestion : i \in DOMAIN chat.messages})
                         \ {<<>>} :
       ChatStep(handleSuggestionClick(chat, suggestion), "handleSuggestionInput", TRUE)
  /\ ChatUnchanged

HandleSuggestionInputSettles ==
  /\ \E i \in DOMAIN chat.pending : \E response \in QueryResponses :
       /\ chat.pending[i].kind = "handleSuggestionInput"
       /\ ChatStep(handleSuggestionInputSettles(chat, i, response),
                   "handleSuggestionInput", FALSE)
  /\ ChatUnchanged

HandleClearChat ==
  /\ chat' = [handleClearChat(chat) EXCEPT !.op = "handleClearChat", !.quiet = TRUE]
  /\ ChatUnchanged

GetPersonalizedAdvice ==
  /\ CanAsk(chat)
  /\ ChatStep(getPersonalizedAdvice(chat), "getPersonalizedAdvice", TRUE)
  /\ ChatUnchanged

GetPersonalizedAdviceSettles ==
  /\ \E i \in DOMAIN chat.pending : \E response \in AdviceResponses :
       /\ chat.pending[i].kind = "getPersonalizedAdvice"
       /\ ChatStep(getPersonalizedAdviceSettles(chat, i, response),
                   "getPersonalizedAdvice", FALSE)
  /\ ChatUnchanged

AnalyzeFinancialGoals ==
  /\ CanAsk(chat)
  /\ ChatStep(analyzeFinancialGoals(chat), "analyzeFinancialGoals", TRUE)
  /\ ChatUnchanged

AnalyzeFinancialGoalsSettles ==
  /\ \E i \in DOMAIN chat.pending : \E response \in GoalsResponses :
       /\ chat.pending[i].kind = "analyzeFinancialGoals"
       /\ ChatStep(analyzeFinancialGoalsSettles(chat, i, response),
                   "analyzeFinancialGoals", FALSE)
  /\ ChatUnchanged

ShowProfileForm ==
  /\ CanAsk(chat)
  /\ \E hasUserId \in BOOLEAN :
       ChatStep(showProfileForm(chat, hasUserId), "showProfileForm", TRUE)
  /\ ChatUnchanged

TimerFires ==
  /\ \E i \in DOMAIN chat.timers : ChatStep(timerFires(chat, i), "(timer)", FALSE)
  /\ ChatUnchanged

(***************************************************************************)
(* The table of the Transactions page (part_000 194-238, 360-412).         *)
(***************************************************************************)
Str_Rent == <<"R", "e", "n", "t">>
Str_rent == <<"r", "e", "n", "t">>

\* a transaction of the table: dates are day numbers
TableTx(description, category, date) ==
  [description |-> description, category |-> category, date |-> date]

\* what the page loads: nothing, two transactions, or six (more than a page of 5)
TableTxLists ==
  {<<>>,
   <<TableTx(Str_Food, "Food", 1), TableTx(Str_Rent, "Housing", 2)>>,
   <<TableTx(Str_Food, "Food", 1), TableTx(Str_Food, "Food", 2),
     TableTx(Str_Food, "Food", 3), TableTx(Str_Food, "Food", 4),
     TableTx(Str_Food, "Food", 5), TableTx(Str_Rent, "Housing", 6)>>}

NoDay == 0
SearchTerms == {<<>>, Str_food, Str_rent}
CategoryFilters == {"", "Food", "Housing"}
StartDates == {NoDay, 3}
EndDates == {NoDay, 4}
RowsPerPageOptions == {5, 10, 25}

\* the state hooks of the page that the table uses
TableInit ==
  [transactions |-> <<>>, loading |-> TRUE, page |-> 0, rowsPerPage |-> 10,
   searchTerm |-> <<>>, categoryFilter |-> "", startDate |-> NoDay, endDate |-> NoDay]

MatchesFilters(t, transaction) ==
  LET matchesSearch ==
        t.searchTerm = <<>>
          \/ includes(toLowerCase(transaction.description), toLowerCase(t.searchTerm))
      matchesCategory == t.categoryFilter = "" \/ transaction.category = t.categoryFilter
      matchesDateRange ==
        /\ t.startDate = NoDay \/ transaction.date >= t.startDate
        /\ t.endDate = NoDay \/ transaction.date <= t.endDate
  IN matchesSearch /\ matchesCategory /\ matchesDateRange

filteredTransactions(t) ==
  SelectSeq(t.transactions, LAMBDA transaction : MatchesFilters(t, transaction))

\* Array.prototype.slice(start, end) with 0 <= start <= end
slice(s, start, end) ==
  LET last == IF end < Len(s) THEN end ELSE Len(s)
  IN IF start >= last THEN <<>> ELSE SubSeq(s, start + 1, last)

paginatedTransactions(t) ==
  slice(filteredTransactions(t), t.page * t.rowsPerPage,
        t.page * t.rowsPerPage + t.rowsPerPage)

\* the row shown in place of the transactions, "" when there are some
EmptyRowText(t) ==
  IF Len(paginatedTransactions(t)) > 0 THEN ""
  ELSE IF Len(filteredTransactions(t)) = 0 /\ Len(t.transactions) > 0
    THEN "No transactions match your search criteria"
  ELSE "No transactions found. Add your first transaction!"

\* the pages the buttons of TablePagination lead to: the previous one, and the
\* next one while rows remain after the current page
ReachablePages(t) ==
  {p \in {t.page - 1, t.page + 1} :
     /\ p >= 0
     /\ p > t.page => p * t.rowsPerPage < Len(filteredTransactions(t))}

handleChangePage(t, newPage) == [t EXCEPT !.page = newPage]

handleChangeRowsPerPage(t, value) == [t EXCEPT !.rowsPerPage = value, !.page = 0]

handleClearFilters(t) ==
  [t EXCEPT !.searchTerm = <<>>, !.categoryFilter = "", !.startDate = NoDay,
            !.endDate = NoDay]

TableUnchanged == UNCHANGED <<pageVars, filterCall, fetchOutcome, auth, profilePage, chat>>

\* the mount effect has loaded the transactions
FetchTransactions ==
  /\ txTable.loading
  /\ \E loaded \in TableTxLists :
       txTable' = [txTable EXCEPT !.transactions = loaded, !.loading = FALSE]
  /\ TableUnchanged

HandleChangePage ==
  /\ ~txTable.loading
  /\ \E newPage \in ReachablePages(txTable) : txTable' = handleChangePage(txTable, newPage)
  /\ TableUnchanged

HandleChangeRowsPerPage ==
  /\ ~txTable.loading
  /\ \E value \in RowsPerPageOptions \ {txTable.rowsPerPage} :
       txTable' = handleChangeRowsPerPage(txTable, value)
  /\ TableUnchanged

SetSearchTerm ==
  /\ ~txTable.loading
  /\ \E value \in SearchTerms \ {txTable.searchTerm} :
       txTable' = [txTable EXCEPT !.searchTerm = value]
  /\ TableUnchanged

SetCategoryFilter ==
  /\ ~txTable.loading
  /\ \E value \in CategoryFilters \ {txTable.categoryFilter} :
       txTable' = [txTable EXCEPT !.categoryFilter = value]
  /\ TableUnchanged

SetStartDate ==
  /\ ~txTable.loading
  /\ \E value \in StartDates \ {txTable.startDate} :
       txTable' = [txTable EXCEPT !.startDate = value]
  /\ TableUnchanged

SetEndDate ==
  /\ ~txTable.loading
  /\ \E value \in EndDates \ {txTable.endDate} :
       txTable' = [txTable EXCEPT !.endDate = value]
  /\ TableUnchanged

HandleClearFilters ==
  /\ ~txTable.loading
  /\ txTable' = handleClearFilters(txTable)
  /\ TableUnchanged


(***************************************************************************)
(* The application: one page mounted at a time.                            *)
(***************************************************************************)
\* the components in their initial state, but for those named in except
OthersInitial(except) ==
  /\ "filterCall" \in except \/ filterCall = NoFilterCall
  /\ "fetchOutcome" \in except \/ fetchOutcome = FetchOutcomeInit
  /\ "auth" \in except \/ auth = AuthInit
  /\ "profilePage" \in except \/ profilePage = ProfileInit
  /\ "chat" \in except \/ chat = ChatInit
  /\ "txTable" \in except \/ txTable = TableInit

OtherInit == OthersInitial({})

\* the pages of the financial analytics in their initial state
PagesInit ==
  /\ now \in Nows
  /\ assistant = AssistantInit
  /\ budgetPage = BudgetInit
  /\ goalsPage = GoalsInit
  /\ analysis = AnalysisInit
  /\ dashboard = DashboardInit

Routes == {"analysis", "dashboard", "assistant", "budget", "goals"}


Init ==
  /\ route \in Routes
  /\ now \in Nows
  /\ assistant = AssistantInit
  /\ budgetPage = BudgetInit
  /\ goalsPage = GoalsInit
  /\ analysis = AnalysisInit
  /\ dashboard = DashboardInit
  /\ OtherInit

\* navigation to another route: the page is unmounted and the new one mounted
Navigate ==
  /\ \E r \in Routes : r # route /\ route' = r
  /\ analysis' = AnalysisInit
  /\ dashboard' = DashboardInit
  /\ assistant' = AssistantInit
  /\ budgetPage' = BudgetInit
  /\ goalsPage' = GoalsInit
  /\ UNCHANGED now
  /\ UNCHANGED otherVars

Next ==
  \/ Navigate
  \/ AnalysisFetchData
  \/ HandleTimeframeChange
  \/ FetchDashboardData
  \/ DashboardIncomeFilterEffect
  \/ FetchFinancialData
  \/ FetchBudgets
  \/ Budget_handleOpenDialog
  \/ Budget_handleCloseDialog
  \/ Budget_handleInputChange
  \/ handleSaveBudget
  \/ FetchGoals
  \/ Goals_handleOpenDialog
  \/ Goals_handleCloseDialog
  \/ Goals_handleInputChange
  \/ handleDateChange
  \/ handleSaveGoal

Spec == Init /\ [][Next]_vars

(***************************************************************************)
(* The Analysis page alone: it is mounted and stays mounted. Its states    *)
(* are those Spec reaches on the route "analysis".                         *)
(***************************************************************************)
AnalysisPageInit ==
  /\ route = "analysis"
  /\ now \in Nows
  /\ assistant = AssistantInit
  /\ budgetPage = BudgetInit
  /\ goalsPage = GoalsInit
  /\ analysis = AnalysisInit
  /\ dashboard = DashboardInit
  /\ OtherInit

AnalysisPageNext ==
  \/ AnalysisFetchData
  \/ HandleTimeframeChange

AnalysisPageSpec == AnalysisPageInit /\ [][AnalysisPageNext]_vars

(***************************************************************************)
(* filterTransactionsByTimeframe alone: the inputs of one call are drawn,   *)
(* then the call is made.                                                   *)
(***************************************************************************)
FilterInit ==
  /\ route = "analysis"
  /\ PagesInit
  /\ filterCall \in FilterCalls
  /\ OthersInitial({"filterCall"})

FilterNext == CallFilter

FilterSpec == FilterInit /\ [][FilterNext]_vars

(***************************************************************************)
(* The AuthProvider alone, called by the Login, Register and Profile pages. *)
(***************************************************************************)
AuthProviderInit ==
  /\ route = "login"
  /\ PagesInit
  /\ auth \in {[AuthInit EXCEPT !.localUser = stored] : stored \in StoredUsers}
  /\ OthersInitial({"auth"})

AuthProviderNext ==
  \/ InitializeUser
  \/ FetchUserProfileSettles
  \/ Login
  \/ LoginSettles
  \/ Register
  \/ RegisterSettles
  \/ Logout
  \/ UpdateUserProfile
  \/ UpdateUserProfileSettles

AuthProviderSpec == AuthProviderInit /\ [][AuthProviderNext]_vars

(***************************************************************************)
(* The Profile page over the AuthProvider, for a user who is logged in.    *)
(***************************************************************************)
\* the provider once initializeUser has restored a stored user and its profile
\* request, if any, has resolved with null
RestoredUsers ==
  {[AuthInit EXCEPT !.initialized = TRUE, !.loading = FALSE, !.localUser = stored,
                    !.currentUser = <<JSONparse(stored[1])>>,
                    !.op = "initializeUser", !.returned = "void"] :
     stored \in StoredUsers \ {<<>>}}

ProfilePageInit ==
  /\ route = "profile"
  /\ PagesInit
  /\ auth \in RestoredUsers
  /\ profilePage = [ProfileInit EXCEPT !.profileData = ProfileOf(auth.currentUser[1])]
  /\ OthersInitial({"auth", "profilePage"})

ProfilePageNext ==
  \/ ToggleEditMode
  \/ HandleProfileInputChange
  \/ HandleSaveProfile
  \/ SaveProfileSettles
  \/ HandleOpenPasswordDialog
  \/ HandleClosePasswordDialog
  \/ HandlePasswordInputChange
  \/ HandleUpdatePassword
  \/ UpdatePasswordSettles
  \/ HandleCloseSnackbar

ProfilePageSpec == ProfilePageInit /\ [][ProfilePageNext]_vars

(***************************************************************************)
(* The conversation of the assistant alone.                                *)
(***************************************************************************)
ChatOnlyInit ==
  /\ route = "assistant"
  /\ PagesInit
  /\ chat \in {[ChatInit EXCEPT !.hasGoals = hasGoals] : hasGoals \in BOOLEAN}
  /\ OthersInitial({"chat"})

ChatNext ==
  \/ HandleInputChange
  \/ HandleSendMessage
  \/ HandleSendMessageSettles
  \/ HandleSuggestionClick
  \/ HandleSuggestionInputSettles
  \/ HandleClearChat
  \/ GetPersonalizedAdvice
  \/ GetPersonalizedAdviceSettles
  \/ AnalyzeFinancialGoals
  \/ AnalyzeFinancialGoalsSettles
  \/ ShowProfileForm
  \/ TimerFires

ChatSpec == ChatOnlyInit /\ [][ChatNext]_vars

(***************************************************************************)
(* The table of the Transactions page alone.                               *)
(***************************************************************************)
TableOnlyInit ==
  /\ route = "transactions"
  /\ PagesInit
  /\ OthersInitial({})

TableNext ==
  \/ FetchTransactions
  \/ HandleChangePage
  \/ HandleChangeRowsPerPage
  \/ SetSearchTerm
  \/ SetCategoryFilter
  \/ SetStartDate
  \/ SetEndDate
  \/ HandleClearFilters

TableSpec == TableOnlyInit /\ [][TableNext]_vars

(***************************************************************************)
(* fetchData of the Analysis page alone.                                   *)
(***************************************************************************)
FetchDataInit ==
  /\ route = "analysis"
  /\ PagesInit
  /\ OthersInitial({})

FetchDataNext == FetchData

FetchDataSpec == FetchDataInit /\ [][FetchDataNext]_vars

(***************************************************************************)
(* The Dashboard page alone.                                               *)
(***************************************************************************)
DashboardPageInit ==
  /\ route = "dashboard"
  /\ PagesInit
  /\ OthersInitial({})

DashboardPageNext ==
  \/ FetchDashboardData
  \/ DashboardIncomeFilterEffect

DashboardPageSpec == DashboardPageInit /\ [][DashboardPageNext]_vars

(***************************************************************************)
(* Properties.                                                             *)
(***************************************************************************)
AnalysisLoaded == route = "analysis" /\ ~analysis.loading /\ Len(analysis.transactions) > 0

DashboardLoaded == route = "dashboard" /\ ~dashboard.loading

\* the transactions of the Analysis page that its window filter keeps
AnalysisFiltered == filterTransactionsByTimeframe(analysis.transactions, analysis.timeframe, now)

SumAbs(ts) == SumSeq([i \in DOMAIN ts |-> Abs(ts[i].amount)])

\* section 4.1 of the specification: trimmed and lower-cased, 'uncategorized' when
\* null, empty or blank
Normalized(category) ==
  IF category = NullValue \/ trim(category) = <<>> THEN Str_uncategorized
  ELSE TrimLower(category)

\* C1: the values of expensesByCategory sum to the sum of |amount| over the
\* transactions in the window whose normalized category is not 'income'.
C1_BreakdownSumsToExpenses ==
  AnalysisLoaded =>
    SumSeq(ObjValues(ExpensesByCategory(AnalysisFiltered)))
      = SumAbs(SelectSeq(AnalysisFiltered, LAMBDA t : Normalized(t.category) # Str_income))

IsIncomeLabel(k) == k # NullValue /\ TrimLower(k) = Str_income

\* C2: no key of a category breakdown is an income label: not in the Analysis
\* breakdowns, and not in the Dashboard's once its income-filter effect has run.
C2_NoIncomeKey ==
  /\ AnalysisLoaded =>
       \A k \in KeySet(ExpensesByCategory(AnalysisFiltered))
                  \cup KeySet(CategorySpendings(AnalysisFiltered)) : ~IsIncomeLabel(k)
  /\ (DashboardLoaded /\ ~dashboard.effectPending) =>
       \A k \in KeySet(dashboard.analysis.category_breakdown) : ~IsIncomeLabel(k)

\* the colour the claimed thresholds give: ok below 70, warning from 70, over from 85
ClaimedColor(p) ==
  IF p < 70 THEN "success.main" ELSE IF p < 85 THEN "warning.main" ELSE "error.main"

\* C3 as stated: the bar colour changes at p = 70 (warning) and at p = 85 (error).
C3_ThresholdsInclusive ==
  route = "budget" =>
    \A i \in DOMAIN budgetPage.budgets :
      BarColor(budgetPage.budgets[i]) = ClaimedColor(calculateUsage(budgetPage.budgets[i]))

\* C3 amended: the bar is green up to and including 70, amber above 70 up to and
\* including 85, red above 85, where p is the usage capped at 100.
C3_ThresholdsExclusive ==
  route = "budget" =>
    \A i \in DOMAIN budgetPage.budgets :
      LET b == budgetPage.budgets[i]
          p == IF b.spent = 0 THEN 0
               ELSE IF b.amount = 0 THEN 100
               ELSE Min(100, (200 * b.spent + b.amount) \div (2 * b.amount))
      IN /\ p <= 70 => BarColor(b) = "success.main"
         /\ (70 < p /\ p <= 85) => BarColor(b) = "warning.main"
         /\ p > 85 => BarColor(b) = "error.main"

\* a budget shown at exactly 70 or exactly 85 percent
C3_Witness ==
  /\ route = "budget"
  /\ \E i \in DOMAIN budgetPage.budgets : calculateUsage(budgetPage.budgets[i]) \in {70, 85}

\* C4: every goal progress percentage lies in [0, 100], on the Goals page and in
\* the assistant's goalDetails and goalProgress.
C4_ProgressInRange ==
  /\ route = "goals" =>
       \A i \in DOMAIN goalsPage.goals :
         goalsPage.goals[i].targetAmount > 0 =>
           calculateProgress(goalsPage.goals[i]) \in 0..100
  /\ route = "assistant" =>
       /\ assistant.financialData.goalProgress \in 0..100
       /\ \A i \in DOMAIN assistant.financialData.goalDetails :
            assistant.financialData.goalDetails[i].progress \in 0..100

\* C5: every stored time-remaining value is 'unknown' or an integer >= 0.
C5_TimeRemainingNonNegative ==
  route = "assistant" =>
    /\ assistant.financialData.goalTimeRemaining.months >= 0
    /\ \A i \in DOMAIN assistant.financialData.goalDetails :
         assistant.financialData.goalDetails[i].timeRemaining.months >= 0

\* C6: the analysis state stored by a load has total_spending equal to the sum of
\* the values of category_breakdown.
C6_TotalEqualsBreakdownSum ==
  DashboardLoaded =>
    dashboard.analysis.total_spending = SumSeq(ObjValues(dashboard.analysis.category_breakdown))

\* the category chart as breakdown data
ChartEntries(chart) == [i \in DOMAIN chart.labels |-> Entry(chart.labels[i], chart.datasets[1][i])]

Placeholders == {Str_NoData, Str_NoExpenseData, Str_NoCategories}

DateLE(a, b) == ~DateGT(a, b)

\* now - window(timeframe): the clock value moved back by the window
WindowStart(timeframe, clock) ==
  LET day == CASE timeframe = "quarter" -> NewDateYMD(clock[1], clock[2] - 3, clock[3])
               [] timeframe = "year" -> NewDateYMD(clock[1] - 1, clock[2], clock[3])
               [] OTHER -> NewDateYMD(clock[1], clock[2] - 1, clock[3])
  IN <<day[1], day[2], day[3], clock[4]>>

HasValidDate(t) == NewDate(t.date) # InvalidDate

\* C8: the window filter keeps a transaction iff now - window <= d <= now.
C8_WindowIsClosedInterval ==
  AnalysisLoaded =>
    \A i \in DOMAIN analysis.transactions :
      LET t == analysis.transactions[i]
      IN HasValidDate(t) =>
           ((\E j \in DOMAIN AnalysisFiltered : AnalysisFiltered[j] = t)
              <=> (DateLE(WindowStart(analysis.timeframe, now), t.date) /\ DateLE(t.date, now)))

\* the transaction is dated in one of the 12 months of the monthly totals
InMonths(t) == MonthIndex(Months(now), TransactionDate(t, now)) # 0

\* C9: income is decided by the normalized category alone, whatever the sign of
\* the amount: the Analysis monthly totals put under Savings the |amount| of the
\* transactions categorised as income and under Expenses that of the others, and
\* the Dashboard's total spending (with an empty analysis response) is the sum of
\* |amount| over the transactions not categorised as income.
C9_IncomeByCategoryOnly ==
  /\ AnalysisLoaded =>
       /\ SumSeq(analysis.monthlyTotalsData.datasets[2])
            = SumAbs(SelectSeq(analysis.transactions,
                               LAMBDA t : InMonths(t) /\ Normalized(t.category) = Str_income))
       /\ SumSeq(analysis.monthlyTotalsData.datasets[1])
            = SumAbs(SelectSeq(analysis.transactions,
                               LAMBDA t : InMonths(t) /\ Normalized(t.category) # Str_income))
  /\ (DashboardLoaded /\ dashboard.analysisData.total_spending = 0) =>
       dashboard.analysis.total_spending
         = SumAbs(SelectSeq(dashboard.transactions, LAMBDA t : Normalized(t.category) # Str_income))

HasNoCategory(t) == t.category = NullValue \/ trim(t.category) = <<>>

\* C10: the expenses in the window without a category are counted, with their
\* |amount|, under the key 'uncategorized' of the breakdown.
C10_UncategorizedCounted ==
  /\ AnalysisLoaded =>
       ObjGet(ExpensesByCategory(AnalysisFiltered), Str_uncategorized)
         = SumAbs(SelectSeq(AnalysisFiltered, HasNoCategory))
  /\ (DashboardLoaded /\ dashboard.analysisData.category_breakdown = <<>>
        /\ ~ObjHas(dashboard.analysis.category_breakdown, Str_NoCategories)) =>
       ObjGet(dashboard.analysis.category_breakdown, Str_uncategorized)
         = SumAbs(SelectSeq(ExpenseTransactions(dashboard.transactions), HasNoCategory))

\* C11: a budget whose amount is 0 has usage percentage 0 whatever was spent, in
\* Budget.calculateUsage and in the assistant's budgetUtilization.
C11_ZeroBudgetUsageIsZero ==
  /\ route = "budget" =>
       \A i \in DOMAIN budgetPage.budgets :
         budgetPage.budgets[i].amount = 0 => calculateUsage(budgetPage.budgets[i]) = 0
  /\ route = "assistant" =>
       \A i \in DOMAIN assistant.financialData.budgetUtilization :
         assistant.financialData.budgetUtilization[i].budgeted = 0 =>
           assistant.financialData.budgetUtilization[i].percentage.num = 0

\* the expense transactions of ts whose normalized category is that of the budget
ExpensesOfBudget(ts, budget) ==
  SelectSeq(ts, LAMBDA t : /\ Normalized(t.category) # Str_income
                           /\ Normalized(t.category) = Normalized(budget.category))

\* the total a breakdown holds under the keys whose normalized form is that of c
TotalUnder(breakdown, c) ==
  SumSeq(ObjValues(SelectSeq(breakdown, LAMBDA e : Normalized(e.key) = Normalized(c))))

\* C12: the spent value paired with a budget is the total of the expense
\* transactions whose normalized category equals the budget's normalized category
\* (0 when there are none): in the Analysis budget comparison over the window, and
\* in the assistant's budgetUtilization over its categorySpendings.
C12_SpentMatchesNormalizedCategory ==
  /\ AnalysisLoaded =>
       \A i \in DOMAIN analysis.budgets :
         analysis.budgetComparisonData.datasets[2][i]
           = SumAbs(ExpensesOfBudget(AnalysisFiltered, analysis.budgets[i]))
  /\ route = "assistant" =>
       \A i \in DOMAIN assistant.financialData.budgetUtilization :
         assistant.financialData.budgetUtilization[i].spent
           = TotalUnder(assistant.financialData.categorySpendings,
                        assistant.financialData.budgetUtilization[i].category)

\* the number an amount field of a request stands for
FieldNumber(f) == IF f.isNumber THEN Num(f.number, 1) ELSE parseFloat(f.text)

IsPositive(x) == ~x.nan /\ x.num > 0

\* C13: handleSaveBudget never calls createBudget / updateBudget with an amount
\* that is zero or negative, and handleSaveGoal never calls createGoal / updateGoal
\* with a targetAmount that is zero or negative.
C13_NonPositiveAmountRejected ==
  /\ (route = "budget" /\ budgetPage.request.kind # "none") =>
       IsPositive(FieldNumber(budgetPage.request.amount))
  /\ (route = "goals" /\ goalsPage.request.kind # "none") =>
       IsPositive(goalsPage.request.targetAmount)

HasNoUsableDate(t) == t.date \in {NoDate, BadDateString}

\* the date the transaction is to be read at: now when its own is missing or unparseable
DateOrNow(t, clock) == IF HasNoUsableDate(t) THEN clock ELSE t.date

InCurrentMonth(d, clock) == d[1] = clock[1] /\ d[2] = clock[2]

\* C14: a transaction whose date is missing or unparseable is treated as dated
\* now: the window filter keeps it whatever the timeframe, and the last (current
\* month) entry of the monthly totals counts it.
C14_UndatedTreatedAsNow ==
  AnalysisLoaded =>
    /\ \A i \in DOMAIN analysis.transactions :
         HasNoUsableDate(analysis.transactions[i]) =>
           \A tf \in Timeframes :
             \E j \in DOMAIN filterTransactionsByTimeframe(analysis.transactions, tf, now) :
               filterTransactionsByTimeframe(analysis.transactions, tf, now)[j]
                 = analysis.transactions[i]
    /\ analysis.monthlyTotalsData.datasets[1][12] + analysis.monthlyTotalsData.datasets[2][12]
         = SumAbs(SelectSeq(analysis.transactions,
                            LAMBDA t : InCurrentMonth(DateOrNow(t, now), now)))

\* the page state a newly mounted Analysis page reaches when its first chart
\* computation runs on the inputs of a
FreshAnalysis(a, clock) ==
  prepareChartData([AnalysisInit EXCEPT !.loading = FALSE,
                                        !.transactions = a.transactions,
                                        !.budgets = a.budgets,
                                        !.goals = a.goals,
                                        !.timeframe = a.timeframe], clock)

AsMapping(breakdown) == {<<breakdown[i].key, breakdown[i].val>> : i \in DOMAIN breakdown}

\* the three breakdowns of one list of transactions agree
BreakdownsAgree(ts) ==
  /\ AsMapping(ManualBreakdown(<<>>, ts)) = AsMapping(ExpensesByCategory(ts))
  /\ AsMapping(ExpensesByCategory(ts)) = AsMapping(AssistantCategorySpendings(ts))

\* C17: for the same transactions (those inside the Analysis window), the
\* Dashboard's manual categoryBreakdown, the Analysis page's expensesByCategory and
\* the assistant's categorySpendings are the same mapping from category to amount.
C17_BreakdownsAgree ==
  /\ AnalysisLoaded => BreakdownsAgree(AnalysisFiltered)
  /\ DashboardLoaded =>
       BreakdownsAgree(filterTransactionsByTimeframe(dashboard.transactions, "month", now))

\* the k-th of the trailing 12 calendar months, as <<year, month0>>: k = 12 is the
\* month of the clock value
TrailingMonth(k, clock) ==
  LET m == clock[1] * 12 + clock[2] - (12 - k)
  IN <<m \div 12, m % 12>>

\* the transaction is dated in the calendar month ym; one without a date field is
\* read at the clock value, one with an unparseable date is in no month
DatedIn(t, ym, clock) ==
  LET d == IF t.date = NoDate THEN clock ELSE t.date
  IN t.date # BadDateString /\ d[1] = ym[1] /\ d[2] = ym[2]

C19_MonthlySavingsIsIncomeMinusExpenses ==
  (route = "assistant" /\ ~assistant.fetching) =>
    /\ assistant.financialData.monthlySavings
         = SumAbs(SelectSeq(assistant.transactions,
                            LAMBDA t : Normalized(t.category) = Str_income))
           - SumAbs(SelectSeq(assistant.transactions,
                              LAMBDA t : Normalized(t.category) # Str_income))
    /\ \A i \in DOMAIN assistant.financialData.goalDetails :
         LET g == assistant.financialData.goalDetails[i]
         IN g.timeRemaining
              = IF assistant.financialData.monthlySavings > 0
                  THEN Months_(-((g.currentAmount - g.targetAmount)
                                   \div assistant.financialData.monthlySavings))
                  ELSE Unknown

\* the normalized categories of a list of transactions
NormalizedCategories(ts) == {Normalized(ts[i].category) : i \in DOMAIN ts}

\* C20: normalization is total (the key Analysis computes for any raw category,
\* null included, is the trimmed lower-cased string or 'uncategorized'), and every
\* key of a breakdown produced by Analysis, Dashboard and the assistant is the
\* normalized category of one of its transactions.
C20_KeysAreNormalized ==
  /\ AnalysisLoaded =>
       /\ \A i \in DOMAIN analysis.transactions :
            CategoryKey(analysis.transactions[i].category)
              = Normalized(analysis.transactions[i].category)
       /\ KeySet(ExpensesByCategory(AnalysisFiltered)) \cup KeySet(CategorySpendings(AnalysisFiltered))
            \subseteq NormalizedCategories(AnalysisFiltered)
  /\ DashboardLoaded =>
       KeySet(ManualBreakdown(<<>>, dashboard.transactions))
         \subseteq NormalizedCategories(dashboard.transactions)
  /\ (route = "assistant" /\ ~assistant.fetching) =>
       KeySet(assistant.financialData.categorySpendings)
         \subseteq NormalizedCategories(assistant.transactions)

\* C21: called with a timeframe other than 'month', 'quarter' and 'year',
\* filterTransactionsByTimeframe returns the transactions it returns for 'month'.
C21_UnknownTimeframeIsMonth ==
  (filterCall.called /\ filterCall.timeframe \notin Timeframes) =>
    filterCall.result = filterTransactionsByTimeframe(filterCall.transactions, "month", now)

\* a call with an unknown timeframe that kept one transaction and dropped one
\* that the window of a year holds
C21_Witness ==
  /\ filterCall.called
  /\ filterCall.timeframe \notin Timeframes
  /\ Len(filterCall.result) = 1
  /\ Len(filterTransactionsByTimeframe(filterCall.transactions, "year", now)) = 2

\* C22: in the AuthProvider, from a state in which currentUser is null and
\* localStorage has no 'user' entry (the state logout leaves), a step keeps both so
\* unless it is a login that succeeds, also the step of a fetchUserProfile or
\* updateUserProfile request that was started before the logout.
C22_LoggedOutUntilLogin ==
  [][(auth.initialized /\ auth.currentUser = <<>> /\ auth.localUser = <<>>)
       => \/ auth'.currentUser = <<>> /\ auth'.localUser = <<>>
          \/ auth'.op = "login" /\ auth'.returned = "success"]_vars

\* the user object carries the first name, last name or email another account
\* registered with
HoldsDataOfAnother(user) ==
  \E other \in Usernames \ {user.username} :
    \/ user.firstName = FirstName(other)
    \/ user.lastName = LastName(other)
    \/ user.email = Email(other)

\* C23: the tempUserData register stores is merged only into the user of the login
\* made for that registration: the user object a successful login under a username
\* has just built never carries the names or email registered under another one,
\* and sessionStorage then holds no tempUserData.
C23_TempDataForSameRegistration ==
  (auth.op = "login" /\ auth.returned = "success") =>
    /\ ~HoldsDataOfAnother(auth.currentUser[1])
    /\ auth.tempUserData = <<>>

\* localStorage 'user' mirrors currentUser
StorageMirrorsUser(a) ==
  IF a.currentUser = <<>>
    THEN a.localUser = <<>>
    ELSE a.localUser = <<JSONstringify(a.currentUser[1])>>

\* the step ends login, register or updateUserProfile with a failure
FailedAuthStep(a) ==
  a.op \in {"login", "register", "updateUserProfile"} /\ a.returned = "failure"

C24_SuccessOnlyOnSuccess ==
  /\ (profilePage.op = "handleSaveProfile" /\ auth.returned = "failure") =>
       /\ profilePage.message.severity = "error"
       /\ profilePage.message.text # "Profile updated successfully"
       /\ profilePage.editMode
  /\ (profilePage.op = "handleUpdatePassword" /\ auth.op = "updateUserPassword"
        /\ auth.returned = "failure") =>
       /\ profilePage.message.severity = "error"
       /\ profilePage.message.text # "Password updated successfully"
       /\ profilePage.openPasswordDialog

\* C25: in the assistant, loading is true exactly when at least one assistant
\* request is in flight.
C25_LoadingIffRequestInFlight ==
  chat.loading <=> Len(chat.pending) > 0

\* C26: from handleClearChat until the next action of the user the message
\* list is exactly the single 'Chat history cleared' message.
C26_ClearedUntilUserActs ==
  chat.quiet => chat.messages = <<ClearedMessage>>

\* C27: in the Transactions table, whenever a transaction matches the filters
\* the displayed page starts inside the matching rows
\* (page * rowsPerPage < filteredTransactions.length), so that no empty-table
\* row is shown.
C27_PageWithinFilteredRows ==
  Len(filteredTransactions(txTable)) > 0 =>
    /\ txTable.page * txTable.rowsPerPage < Len(filteredTransactions(txTable))
    /\ EmptyRowText(txTable) = ""

\* C29: after fetchData, loading is false; with a stored user each collection
\* is the data of its own request when that request succeeded and [] when it
\* failed, whatever the other two requests did; without a stored user the
\* collections stay empty and loading is false as well.
C29_EachFetchOnItsOwn ==
  fetchOutcome.stored # "(not called)" =>
    /\ ~analysis.loading
    /\ analysis.transactions =
         IF fetchOutcome.transactions.ok THEN fetchOutcome.transactions.data ELSE <<>>
    /\ analysis.budgets =
         IF fetchOutcome.budgets.ok THEN fetchOutcome.budgets.data ELSE <<>>
    /\ analysis.goals =
         IF fetchOutcome.goals.ok THEN fetchOutcome.goals.data ELSE <<>>

\* the budgets request failed and the other two brought data, which is kept
C29_Witness ==
  /\ fetchOutcome.stored = "user"
  /\ ~fetchOutcome.budgets.ok
  /\ fetchOutcome.transactions.ok /\ fetchOutcome.goals.ok
  /\ ~analysis.loading
  /\ Len(analysis.transactions) > 0 /\ Len(analysis.goals) > 0
  /\ analysis.budgets = <<>>

\* the analysis the last fetchDashboardData gave to setAnalysis
DashboardLoadedAnalysis == LoadedAnalysis(dashboard.transactions, dashboard.analysisData)

\* C30: the income-filter effect of the Dashboard updates the analysis at most
\* once per loaded breakdown: every update it makes starts from the analysis
\* as it was loaded, leaves no listed income key with a non-zero value, keeps
\* total_spending and period, and once the effect has nothing more to do the
\* breakdown holds no such key.
C30_IncomeFilterFixedPoint ==
  [][/\ (~dashboard.loading /\ ~dashboard'.loading /\ route' = route
           /\ dashboard'.analysis # dashboard.analysis) =>
          /\ dashboard.analysis = DashboardLoadedAnalysis
          /\ RemovedIncomeKeys(dashboard'.analysis.category_breakdown) = {}
          /\ dashboard'.analysis.total_spending = dashboard.analysis.total_spending
          /\ dashboard'.analysis.period = dashboard.analysis.period
     /\ (~dashboard'.loading /\ ~dashboard'.effectPending) =>
          RemovedIncomeKeys(dashboard'.analysis.category_breakdown) = {}]_vars

\* the effect has removed two income keys from a loaded breakdown and has come
\* to rest
C30_Witness ==
  /\ route = "dashboard" /\ ~dashboard.loading /\ ~dashboard.effectPending
  /\ Cardinality(RemovedIncomeKeys(DashboardLoadedAnalysis.category_breakdown)) = 2
  /\ dashboard.analysis # DashboardLoadedAnalysis

====
